---------------------------- MODULE Spec2Model ----------------------------
(***************************************************************************)
(* OrbitIQ: the collision engine (collisionDetection), the thermal engine  *)
(* (thermalPhysics), the propulsion / lifetime engine (propulsionPhysics),  *)
(* the thermal prediction HTTP handler, and the RealSpaceDataService with  *)
(* the Dashboard that polls it, as state machines over integers.           *)
(*                                                                         *)
(* Units.  The source computes in IEEE doubles; the model computes in      *)
(* scaled integers:                                                        *)
(*   temperatures            centi-kelvin (29300 = 293 K)                  *)
(*   heat fluxes             W/m^2                                         *)
(*   absorptivity/emissivity percent                                       *)
(*   surface area            1/100 m^2                                     *)
(*   Date values             milliseconds                                  *)
(*   probabilities           percent (85 = 0.85)                           *)
(*   positions               1/10000 Earth radius                          *)
(*   distances               1/10 km                                       *)
(*   velocities, speeds      1/10 of the source's unit                     *)
(***************************************************************************)
EXTENDS Integers, Sequences, FiniteSets, TLC

VARIABLES
    \* ---- runThermalSimulation: arguments
    config, orbitalState, startTime, durationSeconds, timeStepSeconds,
    eclipseAt,
    \* ---- runThermalSimulation: locals
    timeline, riskWindows, temperature, peakTemp, minTemp,
    timeToOverheat, timeToUnderheat, inRiskWindow, riskWindowStart,
    riskWindowType, wasEclipse, consecutiveSunExposure, i,
    \* ---- the caller of runThermalSimulation
    pc, prediction, run, firstPrediction,
    \* ---- collision engine: the tracked objects and detectCollisionRisks' result
    satellites, risks,
    \* ---- collision engine: calculateRiskScore's arguments and result
    totalObjects, collisionRisks, riskScore,
    \* ---- propulsion engine: the spacecraft, the delta-v spent, the last
    \* calculateMissionLifetimeState and calculateDeltaV results
    propulsion, cumulativeDeltaV, lifetime, propellantUsed, deltaV,
    \* ---- propulsion engine: the selected maneuver plan and the last
    \* assessManeuverImpact result
    maneuver, impact,
    \* ---- thermal prediction handler: the request being served, its parsed
    \* parameters, the locals of runSimulation and the response returned
    request, parameters, simulation, response,
    \* ---- RealSpaceDataService: its fields, the getCurrentStats invocations
    \* that await their fetch, and the result of the last finished
    \* fetchSOCRATESData
    baselineStats, realData, lastFetch, awaiting, socratesData,
    \* ---- Dashboard: the clock, the time the interval timer is due, the
    \* component state, the previousRiskScore the mounted effect was run
    \* with, whether the last update raised the critical alert, and the
    \* callback that ran last
    now, intervalDue, liveStats, previousRiskScore, effectRiskScore,
    criticalAlert, event

thermalArgs == <<config, orbitalState, startTime, durationSeconds,
                 timeStepSeconds, eclipseAt>>
thermalLocals == <<timeline, riskWindows, temperature, peakTemp, minTemp,
                   timeToOverheat, timeToUnderheat, inRiskWindow,
                   riskWindowStart, riskWindowType, wasEclipse,
                   consecutiveSunExposure, i>>
thermalVars == <<thermalArgs, thermalLocals, pc, prediction, run,
                 firstPrediction>>

collisionVars == <<satellites, risks>>
scoreVars == <<totalObjects, collisionRisks, riskScore>>

propulsionVars == <<propulsion, cumulativeDeltaV, lifetime, propellantUsed,
                    deltaV, maneuver, impact>>

handlerVars == <<request, parameters, simulation, response>>

serviceVars == <<baselineStats, realData, lastFetch, awaiting, socratesData,
                 now, intervalDue, liveStats, previousRiskScore,
                 effectRiskScore, criticalAlert, event>>

vars == <<thermalVars, collisionVars, scoreVars, propulsionVars, handlerVars,
          serviceVars>>

\* what each engine leaves alone
notThermal == <<collisionVars, scoreVars, propulsionVars, handlerVars,
                serviceVars>>
notCollision == <<thermalVars, scoreVars, propulsionVars, handlerVars,
                  serviceVars>>
notScore == <<thermalVars, collisionVars, propulsionVars, handlerVars,
              serviceVars>>
notPropulsion == <<thermalVars, collisionVars, scoreVars, handlerVars,
                   serviceVars>>
notHandler == <<thermalVars, collisionVars, scoreVars, propulsionVars,
                serviceVars>>
notService == <<thermalVars, collisionVars, scoreVars, propulsionVars,
                handlerVars>>

-----------------------------------------------------------------------------
(* Bounds of the model *)

\* durationSeconds ranges over 0, 900, ..., MaxDuration * 900
MaxDuration == 4

\* the largest number of tracked objects
MaxSatellites == 3

\* the longest risk list handed to calculateRiskScore
MaxRisks == 9

\* the propellant mass may fall this far below empty before the model stops
MaxOverdraw == 50

\* a mass is recovered by a round trip to within this many 1/10 kg
MassTolerance == 1

\* a delta-v is recovered by a round trip to within this many cm/s: one
\* step of the mass grid is worth up to exhaustVelocity / dryMass
DeltaVTolerance == 40

\* the clock when the page is loaded, in seconds since the epoch
StartTime == 1762000000

\* the clock stops this many seconds after StartTime
MaxElapsed == 320

\* a SOCRATES fetch is answered within this many seconds
MaxLatency == 5

-----------------------------------------------------------------------------
(* Arithmetic helpers *)

Max(a, b) == IF a >= b THEN a ELSE b
Min(a, b) == IF a <= b THEN a ELSE b

RECURSIVE SqrtSearch(_, _, _)
\* the largest r in lo..hi with r*r <= n (binary search)
SqrtSearch(n, lo, hi) ==
    IF lo >= hi THEN lo
    ELSE LET mid == (lo + hi + 1) \div 2
         IN  IF mid * mid <= n THEN SqrtSearch(n, mid, hi)
                               ELSE SqrtSearch(n, lo, mid - 1)

\* Math.sqrt, rounded down
Sqrt(n) == SqrtSearch(n, 0, 46340)

\* the value null of a number | null
null == -1

\* IEEE results that are no finite number; -Infinity is written -Infinity
NaN == -1999999999
Infinity == 2000000000

IsFinite(a) == a # NaN /\ a # Infinity /\ a # -Infinity

\* a + b of two doubles
JsAdd(a, b) ==
    IF a = NaN \/ b = NaN THEN NaN
    ELSE IF ~IsFinite(a) THEN (IF b = -a THEN NaN ELSE a)
    ELSE IF ~IsFinite(b) THEN b
    ELSE a + b

\* a - b of two doubles
JsSubtract(a, b) == JsAdd(a, IF b = NaN THEN NaN ELSE -b)

\* a * n of two doubles, n finite
JsTimes(a, n) ==
    IF a = NaN THEN NaN
    ELSE IF ~IsFinite(a)
         THEN (IF n = 0 THEN NaN ELSE IF n > 0 THEN a ELSE -a)
    ELSE a * n

\* a / b of two doubles, b finite; the quotient of two finite numbers is
\* truncated
JsDivide(a, b) ==
    IF a = NaN THEN NaN
    ELSE IF ~IsFinite(a) THEN (IF b >= 0 THEN a ELSE -a)
    ELSE IF b = 0
         THEN (IF a = 0 THEN NaN ELSE IF a > 0 THEN Infinity ELSE -Infinity)
    ELSE a \div b

\* Math.max and Math.min: NaN if either argument is
JsMax(a, b) == IF a = NaN \/ b = NaN THEN NaN ELSE Max(a, b)
JsMin(a, b) == IF a = NaN \/ b = NaN THEN NaN ELSE Min(a, b)

\* a < b and a > b of two doubles: false if either is NaN
JsLess(a, b) == a # NaN /\ b # NaN /\ a < b
JsGreater(a, b) == JsLess(b, a)

-----------------------------------------------------------------------------
(* An engine that a specification does not run stays in its idle state *)

CollisionIdle == satellites = << >> /\ risks = << >>

ScoreIdle == totalObjects = 0 /\ collisionRisks = << >> /\ riskScore = 0

\* no maneuver is selected (selectedManeuver is null)
NoManeuver ==
    [type |-> "none", deltaV |-> 0, propellantRequired |-> 0,
     description |-> [threatLevel |-> "none", missDistance |-> 0],
     priority |-> "none"]

\* no impact has been assessed (maneuverImpact is null)
NoImpact == [recommendation |-> "none"]

PropulsionIdle ==
    /\ propulsion = [dryMass |-> 0, propellantMass |-> 0,
                     initialPropellant |-> 0, specificImpulse |-> 0,
                     thrustLevel |-> 0, minPropellantReserve |-> 0]
    /\ cumulativeDeltaV = 0
    /\ lifetime = [status |-> "idle"]
    /\ propellantUsed = 0
    /\ deltaV = 0
    /\ maneuver = NoManeuver
    /\ impact = NoImpact

\* no request has arrived
NoRequest == [method |-> "none"]
NoParameters == [satelliteType |-> "none"]
NoResponse == [status |-> 0]

\* the locals of runSimulation before its loop
SimulationStart ==
    [temperature |-> 29300, peakTemp |-> 29300, minTemp |-> 29300,
     timeToOverheat |-> null, i |-> 0]

HandlerIdle ==
    /\ request = NoRequest
    /\ parameters = NoParameters
    /\ simulation = SimulationStart
    /\ response = NoResponse

\* private baselineStats = { collisionAlerts: 12, ... }
BASELINE_STATS ==
    [collisionAlerts |-> 12, predictedEvents |-> 47, riskScore |-> 38]

\* realData is null
NoRealData ==
    [collisionAlerts |-> null, predictedEvents |-> null, riskScore |-> null,
     lastUpdate |-> null]

\* no fetchSOCRATESData has finished, or one returned null
NoSocratesData == [count |-> null, highRisk |-> null]

\* the singleton service as constructed (lastFetch is new Date(0)), and
\* the Dashboard before it is mounted; times are in seconds
ServiceIdle ==
    /\ baselineStats = BASELINE_STATS
    /\ realData = NoRealData
    /\ lastFetch = 0
    /\ awaiting = << >>
    /\ socratesData = NoSocratesData
    /\ now = StartTime
    /\ intervalDue = null
    /\ liveStats = [collisionAlerts |-> 0, predictedEvents |-> 0,
                    riskScore |-> 0]
    /\ previousRiskScore = 0
    /\ effectRiskScore = null
    /\ criticalAlert = FALSE
    /\ event = "none"

-----------------------------------------------------------------------------
(* Thermal engine: constants *)

SOLAR_CONSTANT == 1361
\* 5.67e-8, as 567 * 10^-10
STEFAN_BOLTZMANN == 567
EARTH_RADIUS == 6371
EARTH_IR_EMISSION == 237
\* 0.3, in percent
EARTH_ALBEDO == 30

DEFAULT_SATELLITE_CONFIG ==
    [name |-> "Default LEO Satellite", mass |-> 1000, surfaceArea |-> 2000,
     absorptivity |-> 30, emissivity |-> 85, specificHeat |-> 900,
     internalPower |-> 500, minTemp |-> 22300, maxTemp |-> 37300]

\* the CubeSat 3U preset of the thermal module
CUBESAT_CONFIG ==
    [name |-> "CubeSat 3U", mass |-> 4, surfaceArea |-> 6,
     absorptivity |-> 25, emissivity |-> 90, specificHeat |-> 900,
     internalPower |-> 8, minTemp |-> 25300, maxTemp |-> 34300]

-----------------------------------------------------------------------------
(* Thermal engine: pure functions *)

\* The eclipse test of calculateHeatFluxes at step k of the loop.  The
\* source derives it from the position on the circular orbit and the Sun
\* vector at the step's time (isInEclipse, getSunVector), both pure
\* functions of the arguments and the step; the model takes the resulting
\* flag of every step, eclipseAt, as part of the arguments, so that every
\* sequence of eclipse flags is covered.
isInEclipse(k) == eclipseAt[k]

\* 1000 * the view factor to Earth
ViewFactor(altitude) ==
    LET rho == (EARTH_RADIUS * 1000) \div (EARTH_RADIUS + altitude)
    IN  (1000 - Sqrt(1000000 - rho * rho)) \div 2

\* emissivity * sigma * T^4, T in centi-kelvin; Math.pow(T, 4) of an
\* infinite T is Infinity
RadiatedFlux(cfg, temp) ==
    LET k  == temp \div 100
        t2 == (k * k) \div 100
        t4 == t2 * t2
    IN  IF IsFinite(temp)
        THEN (((t4 * STEFAN_BOLTZMANN) \div 1000000) * cfg.emissivity) \div 100
        ELSE JsTimes(IF temp = NaN THEN NaN ELSE Infinity, cfg.emissivity)

calculateHeatFluxes(cfg, orb, eclipse, temp) ==
    LET viewFactor == ViewFactor(orb.altitude)
        solarFlux  == IF eclipse THEN 0
                      ELSE (SOLAR_CONSTANT * cfg.absorptivity) \div 100
        albedoBase ==
            (((((SOLAR_CONSTANT * EARTH_ALBEDO) \div 100) * viewFactor)
                \div 1000) * cfg.absorptivity) \div 100
        albedoFlux == IF eclipse THEN albedoBase \div 10 ELSE albedoBase
        earthIRFlux ==
            (((EARTH_IR_EMISSION * viewFactor) \div 1000) * cfg.emissivity)
                \div 100
        internalFlux == JsDivide(cfg.internalPower * 100, cfg.surfaceArea)
        radiatedFlux == RadiatedFlux(cfg, temp)
    IN  [solarFlux |-> solarFlux, albedoFlux |-> albedoFlux,
         earthIRFlux |-> earthIRFlux, internalFlux |-> internalFlux,
         radiatedFlux |-> radiatedFlux,
         netFlux |-> JsSubtract(JsAdd(solarFlux + albedoFlux + earthIRFlux,
                                      internalFlux), radiatedFlux),
         isEclipse |-> eclipse]

\* forward Euler: T + netFlux * area * dt / (mass * specificHeat)
propagateTemperature(cfg, currentTemp, netHeatFlux, deltaTime) ==
    LET thermalMass == cfg.mass * cfg.specificHeat
        heatInput ==
            IF IsFinite(netHeatFlux)
            THEN ((netHeatFlux * deltaTime) \div 100) * cfg.surfaceArea
            ELSE JsTimes(JsTimes(netHeatFlux, cfg.surfaceArea), deltaTime)
        deltaT == JsDivide(heatInput, thermalMass \div 100)
    IN  JsAdd(currentTemp, deltaT)

getRiskWindowDescription(type) ==
    CASE type = "eclipse_exit" ->
           "Rapid temperature rise after eclipse exit due to sudden solar exposure"
      [] type = "eclipse_entry" ->
           "Rapid temperature drop upon entering Earth shadow"
      [] type = "high_beta" ->
           "Extended sun exposure due to high beta angle orbit geometry"
      [] type = "prolonged_sun" ->
           "Continuous solar heating without eclipse cooling cycles"
      [] OTHER -> "Thermal risk event detected"

\* the risk level with the lower margin left out
RiskLevelHighMarginOnly(cfg, temp) ==
    IF cfg.maxTemp - temp < 1000 THEN "critical"
    ELSE IF cfg.maxTemp - temp < 3000 THEN "warning"
    ELSE "nominal"

\* the riskLevel of a timeline entry
RiskLevel(cfg, temp) ==
    LET tempMarginHigh == JsSubtract(cfg.maxTemp, temp)
        tempMarginLow  == JsSubtract(temp, cfg.minTemp)
    IN  IF JsLess(tempMarginHigh, 1000) \/ JsLess(tempMarginLow, 1000)
        THEN "critical"
        ELSE IF JsLess(tempMarginHigh, 3000) \/ JsLess(tempMarginLow, 3000)
        THEN "warning"
        ELSE "nominal"

\* the mitigations with the hot attitude slew required as soon as it is emitted
generateMitigationsRequiredInMargin(cfg, peak, mn, windows) ==
    LET hot ==
          IF JsGreater(peak, cfg.maxTemp - 3000)
          THEN << [type |-> "attitude_slew", impact |-> -15,
                   priority |-> "required"],
                  [type |-> "duty_cycle", impact |-> -8,
                   priority |-> "recommended"] >>
          ELSE << >>
        cold ==
          IF JsLess(mn, cfg.minTemp + 3000)
          THEN << [type |-> "heater_activation", impact |-> 12,
                   priority |-> IF JsLess(mn, cfg.minTemp) THEN "required"
                                ELSE "recommended"],
                  [type |-> "attitude_slew", impact |-> 10,
                   priority |-> "optional"] >>
          ELSE << >>
        timing ==
          IF \E k \in 1..Len(windows) :
                 windows[k].type \in {"eclipse_exit", "eclipse_entry"}
          THEN << [type |-> "orbit_timing", impact |-> -5,
                   priority |-> "optional"] >>
          ELSE << >>
        beta ==
          IF \E k \in 1..Len(windows) : windows[k].type = "high_beta"
          THEN << [type |-> "attitude_slew", impact |-> -12,
                   priority |-> "recommended"] >>
          ELSE << >>
    IN  hot \o cold \o timing \o beta

generateMitigations(cfg, peak, mn, windows) ==
    LET hot ==
          IF JsGreater(peak, cfg.maxTemp - 3000)
          THEN << [type |-> "attitude_slew", impact |-> -15,
                   priority |-> IF JsGreater(peak, cfg.maxTemp)
                                THEN "required"
                                ELSE "recommended"],
                  [type |-> "duty_cycle", impact |-> -8,
                   priority |-> "recommended"] >>
          ELSE << >>
        cold ==
          IF JsLess(mn, cfg.minTemp + 3000)
          THEN << [type |-> "heater_activation", impact |-> 12,
                   priority |-> IF JsLess(mn, cfg.minTemp) THEN "required"
                                ELSE "recommended"],
                  [type |-> "attitude_slew", impact |-> 10,
                   priority |-> "optional"] >>
          ELSE << >>
        eclipseWindows ==
          SelectSeq(windows, LAMBDA w : w.type = "eclipse_exit"
                                         \/ w.type = "eclipse_entry")
        timing ==
          IF Len(eclipseWindows) > 0
          THEN << [type |-> "orbit_timing", impact |-> -5,
                   priority |-> "optional"] >>
          ELSE << >>
        beta ==
          IF \E k \in 1..Len(windows) : windows[k].type = "high_beta"
          THEN << [type |-> "attitude_slew", impact |-> -12,
                   priority |-> "recommended"] >>
          ELSE << >>
    IN  hot \o cold \o timing \o beta

RECURSIVE WindowRiskAllCritical(_)
\* the window term with every window counted as critical
WindowRiskAllCritical(windows) ==
    IF windows = << >> THEN 0
    ELSE WindowRiskAllCritical(SubSeq(windows, 1, Len(windows) - 1)) + 15

RECURSIVE WindowRisk(_)
\* riskWindows.reduce: 15 per critical window, 8 per other window
WindowRisk(windows) ==
    IF windows = << >> THEN 0
    ELSE WindowRisk(SubSeq(windows, 1, Len(windows) - 1))
           + (IF windows[Len(windows)].severity = "critical" THEN 15 ELSE 8)

\* min(100, round(tempRangeRisk + windowRisk))
RiskScore(cfg, peak, mn, windows) ==
    LET range == JsMax(JsMax(JsAdd(JsSubtract(peak, cfg.maxTemp), 5000),
                             JsAdd(JsSubtract(cfg.minTemp, mn), 5000)), 0)
        \* range / 100 * 50, in 1/200 of a point; Math.round is floor(x + 1/2)
    IN  IF IsFinite(range)
        THEN Min(100, (range + 200 * WindowRisk(windows) + 100) \div 200)
        ELSE JsMin(100, range)

-----------------------------------------------------------------------------
(* Thermal engine: runThermalSimulation *)

\* Math.floor(durationSeconds / timeStepSeconds)
steps == durationSeconds \div timeStepSeconds

\* the largest loop index any run of the model reaches
MaxSteps == (MaxDuration * 900) \div 600

\* new Date(startTime.getTime() + k * timeStepSeconds * 1000)
TimeAt(k) == startTime + k * timeStepSeconds * 1000

\* the open window, if any: inRiskWindow, riskWindowStart, riskWindowType
NoWindow == [in |-> FALSE, start |-> null, type |-> "null"]

\* one of the four trigger blocks: opens a window unless one is open
OpenWindow(w, trigger, currentTime, type) ==
    IF trigger /\ ~w.in
    THEN [in |-> TRUE, start |-> currentTime, type |-> type]
    ELSE w

\* the four trigger blocks with the beta-angle block first
TriggeredBetaFirst(w, was, isEclipse, exposure, currentTime) ==
    LET w1 == OpenWindow(w, (IF orbitalState.betaAngle >= 0
                             THEN orbitalState.betaAngle
                             ELSE -orbitalState.betaAngle) > 1047,
                         currentTime, "high_beta")
        w2 == OpenWindow(w1, was /\ ~isEclipse, currentTime, "eclipse_exit")
        w3 == OpenWindow(w2, ~was /\ isEclipse, currentTime, "eclipse_entry")
    IN  OpenWindow(w3, ~isEclipse /\ exposure > 3600, currentTime,
                   "prolonged_sun")

\* the window state after the four trigger blocks of one iteration
Triggered(w, was, isEclipse, exposure, currentTime) ==
    LET w1 == OpenWindow(w, was /\ ~isEclipse, currentTime, "eclipse_exit")
        w2 == OpenWindow(w1, ~was /\ isEclipse, currentTime, "eclipse_entry")
        w3 == OpenWindow(w2, ~isEclipse /\ exposure > 3600, currentTime,
                         "prolonged_sun")
    IN  OpenWindow(w3, (IF orbitalState.betaAngle >= 0
                        THEN orbitalState.betaAngle
                        ELSE -orbitalState.betaAngle) > 1047,
                   currentTime, "high_beta")

\* the closing block: does it fire?
Closes(w, riskLevel) ==
    w.in /\ riskLevel = "nominal" /\ w.start # null /\ w.type # "null"

\* the closing block without its three resets
AfterCloseKeepsWindow(w, riskLevel) == w

\* the window state after the closing block
AfterClose(w, riskLevel) == IF Closes(w, riskLevel) THEN NoWindow ELSE w

\* the record the closing block pushes
ClosedWindow(w, currentTime, peak) ==
    [startTime |-> w.start, endTime |-> currentTime, type |-> w.type,
     severity |-> IF JsGreater(peak, config.maxTemp - 2000) THEN "critical"
                  ELSE "warning",
     peakTemp |-> peak,
     description |-> getRiskWindowDescription(w.type)]

\* the declarations at the head of runThermalSimulation, with the eclipse
\* tracking (wasEclipse, consecutiveSunExposure) kept at module level
EnterSimulationKeepsTracking ==
    /\ timeline' = << >>
    /\ riskWindows' = << >>
    /\ temperature' = 29300
    /\ peakTemp' = 29300
    /\ minTemp' = 29300
    /\ timeToOverheat' = null
    /\ timeToUnderheat' = null
    /\ inRiskWindow' = FALSE
    /\ riskWindowStart' = null
    /\ riskWindowType' = "null"
    /\ UNCHANGED <<wasEclipse, consecutiveSunExposure>>
    /\ i' = 0

\* the declarations at the head of runThermalSimulation
EnterSimulation ==
    /\ timeline' = << >>
    /\ riskWindows' = << >>
    /\ temperature' = 29300
    /\ peakTemp' = 29300
    /\ minTemp' = 29300
    /\ timeToOverheat' = null
    /\ timeToUnderheat' = null
    /\ inRiskWindow' = FALSE
    /\ riskWindowStart' = null
    /\ riskWindowType' = "null"
    /\ wasEclipse' = FALSE
    /\ consecutiveSunExposure' = 0
    /\ i' = 0

\* the breach time that takes every breach, not only the first
BreachTimeOverwritten(breached, recorded, elapsed) ==
    IF breached THEN elapsed ELSE recorded

\* if (breached && recorded === null) recorded = i * timeStepSeconds
BreachTime(breached, recorded, elapsed) ==
    IF breached /\ recorded = null THEN elapsed ELSE recorded

\* the loop condition, stopping one iteration early
LoopContinuesExclusive == i < steps

\* the loop condition of for (let i = 0; i <= steps; i++)
LoopContinues == i <= steps

\* one iteration of the for loop
ThermalStep ==
    /\ pc = "loop"
    /\ LoopContinues
    /\ LET currentTime == TimeAt(i)
           fluxes == calculateHeatFluxes(config, orbitalState,
                                         isInEclipse(i), temperature)
           newTemp == propagateTemperature(config, temperature,
                                           fluxes.netFlux, timeStepSeconds)
           newPeak == JsMax(peakTemp, newTemp)
           riskLevel == RiskLevel(config, newTemp)
           isEclipse == fluxes.isEclipse
           exposure == IF ~isEclipse
                       THEN consecutiveSunExposure + timeStepSeconds
                       ELSE 0
           w0 == [in |-> inRiskWindow, start |-> riskWindowStart,
                  type |-> riskWindowType]
           w == Triggered(w0, wasEclipse, isEclipse, exposure, currentTime)
           wEnd == AfterClose(w, riskLevel)
       IN  /\ temperature' = newTemp
           /\ peakTemp' = newPeak
           /\ minTemp' = JsMin(minTemp, newTemp)
           /\ timeToOverheat' =
                BreachTime(JsGreater(newTemp, config.maxTemp), timeToOverheat,
                           i * timeStepSeconds)
           /\ timeToUnderheat' =
                BreachTime(JsLess(newTemp, config.minTemp), timeToUnderheat,
                           i * timeStepSeconds)
           /\ consecutiveSunExposure' = exposure
           /\ riskWindows' =
                IF Closes(w, riskLevel)
                THEN Append(riskWindows, ClosedWindow(w, currentTime, newPeak))
                ELSE riskWindows
           /\ inRiskWindow' = wEnd.in
           /\ riskWindowStart' = wEnd.start
           /\ riskWindowType' = wEnd.type
           /\ wasEclipse' = isEclipse
           /\ timeline' = Append(timeline,
                [time |-> currentTime, temperature |-> newTemp,
                 solarFlux |-> fluxes.solarFlux,
                 albedoFlux |-> fluxes.albedoFlux,
                 earthIRFlux |-> fluxes.earthIRFlux,
                 internalFlux |-> fluxes.internalFlux,
                 netHeatFlux |-> fluxes.netFlux,
                 isEclipse |-> isEclipse, riskLevel |-> riskLevel])
           /\ i' = i + 1
    /\ UNCHANGED <<thermalArgs, pc, prediction, run, firstPrediction>>
    /\ UNCHANGED notThermal

\* the code after the loop, with a window still open recorded as closed at
\* the last step
ThermalReturnFlushesOpenWindow ==
    /\ pc = "loop"
    /\ ~LoopContinues
    /\ LET w == [in |-> inRiskWindow, start |-> riskWindowStart,
                 type |-> riskWindowType]
           windows == IF inRiskWindow
                      THEN Append(riskWindows,
                                  ClosedWindow(w, TimeAt(steps), peakTemp))
                      ELSE riskWindows
       IN  prediction' =
             [peakTemperature |-> peakTemp, minTemperature |-> minTemp,
              timeToOverheat |-> timeToOverheat,
              timeToUnderheat |-> timeToUnderheat,
              riskScore |-> RiskScore(config, peakTemp, minTemp, windows),
              riskWindows |-> windows,
              mitigations |-> generateMitigations(config, peakTemp, minTemp,
                                                  windows),
              thermalTimeline |-> timeline]
    /\ pc' = "done"
    /\ UNCHANGED <<thermalArgs, thermalLocals, run, firstPrediction>>
    /\ UNCHANGED notThermal

\* the code after the loop: risk score, mitigations, the returned object
ThermalReturn ==
    /\ pc = "loop"
    /\ ~LoopContinues
    /\ prediction' =
         [peakTemperature |-> peakTemp, minTemperature |-> minTemp,
          timeToOverheat |-> timeToOverheat,
          timeToUnderheat |-> timeToUnderheat,
          riskScore |-> RiskScore(config, peakTemp, minTemp, riskWindows),
          riskWindows |-> riskWindows,
          mitigations |-> generateMitigations(config, peakTemp, minTemp,
                                              riskWindows),
          thermalTimeline |-> timeline]
    /\ pc' = "done"
    /\ UNCHANGED <<thermalArgs, thermalLocals, run, firstPrediction>>
    /\ UNCHANGED notThermal

\* the caller runs the simulation a second time on the same arguments
ThermalCallAgain ==
    /\ pc = "done"
    /\ run = 1
    /\ firstPrediction' = prediction
    /\ run' = 2
    /\ pc' = "loop"
    /\ EnterSimulation
    /\ UNCHANGED <<thermalArgs, prediction>>
    /\ UNCHANGED notThermal

NoPrediction ==
    [peakTemperature |-> 0, minTemperature |-> 0, timeToOverheat |-> null,
     timeToUnderheat |-> null, riskScore |-> 0, riskWindows |-> << >>,
     mitigations |-> << >>, thermalTimeline |-> << >>]

\* the configurations the model runs: the two presets, and the default
\* satellite with other operating limits
ThermalConfigs ==
    { DEFAULT_SATELLITE_CONFIG, CUBESAT_CONFIG,
      [DEFAULT_SATELLITE_CONFIG EXCEPT !.maxTemp = 32500],
      [DEFAULT_SATELLITE_CONFIG EXCEPT !.maxTemp = 30500],
      [DEFAULT_SATELLITE_CONFIG EXCEPT !.minTemp = 45000, !.maxTemp = 60000],
      [DEFAULT_SATELLITE_CONFIG EXCEPT !.minTemp = 28500, !.maxTemp = 30000] }

\* configurations with a mass, surface area or specific heat that is zero
\* or negative
NonPhysicalConfigs ==
    { [DEFAULT_SATELLITE_CONFIG EXCEPT !.mass = 0],
      [DEFAULT_SATELLITE_CONFIG EXCEPT !.surfaceArea = 0],
      [DEFAULT_SATELLITE_CONFIG EXCEPT !.specificHeat = 0],
      [DEFAULT_SATELLITE_CONFIG EXCEPT !.mass = -1000],
      [CUBESAT_CONFIG EXCEPT !.surfaceArea = -6],
      [CUBESAT_CONFIG EXCEPT !.specificHeat = -900] }

\* a call of runThermalSimulation with a configuration out of configs
ThermalCall(configs) ==
    /\ config \in configs
    /\ orbitalState \in { [altitude |-> 400, inclination |-> 900,
                           betaAngle |-> b] : b \in {300, 1200} }
    /\ startTime \in {43200000}
    /\ timeStepSeconds \in {600, 1800}
    /\ durationSeconds \in { 900 * d : d \in 0..MaxDuration }
    /\ eclipseAt \in [0..MaxSteps -> BOOLEAN]
    /\ \A k \in 0..MaxSteps : k > steps => ~eclipseAt[k]
    /\ timeline = << >>
    /\ riskWindows = << >>
    /\ temperature = 29300
    /\ peakTemp = 29300
    /\ minTemp = 29300
    /\ timeToOverheat = null
    /\ timeToUnderheat = null
    /\ inRiskWindow = FALSE
    /\ riskWindowStart = null
    /\ riskWindowType = "null"
    /\ wasEclipse = FALSE
    /\ consecutiveSunExposure = 0
    /\ i = 0
    /\ pc = "loop"
    /\ prediction = NoPrediction
    /\ run = 1
    /\ firstPrediction = NoPrediction
    /\ CollisionIdle
    /\ ScoreIdle
    /\ PropulsionIdle
    /\ HandlerIdle
    /\ ServiceIdle

ThermalInit == ThermalCall(ThermalConfigs)

\* the same call with a non-physical configuration
NonPhysicalInit == ThermalCall(NonPhysicalConfigs)

ThermalNext == ThermalStep \/ ThermalReturn \/ ThermalCallAgain

SpecThermal == ThermalInit /\ [][ThermalNext]_vars

SpecThermalNonPhysical == NonPhysicalInit /\ [][ThermalNext]_vars

\* the loop and the return are steps of one synchronous call
FairSpecThermal == SpecThermal /\ WF_vars(ThermalNext)

-----------------------------------------------------------------------------
(* Thermal engine: claims *)

\* C1: at every step of runThermalSimulation at most one risk window is
\* open (the open-window flag, start and type are set together, and an open
\* window starts after the end of every recorded one), every recorded
\* window has startTime <= endTime, and each recorded window ends strictly
\* before the next one starts; the returned list is the recorded list.
C1_WindowsNeverOverlap ==
    /\ inRiskWindow <=> riskWindowStart # null
    /\ inRiskWindow <=> riskWindowType # "null"
    /\ \A k \in 1..Len(riskWindows) :
          /\ riskWindows[k].startTime <= riskWindows[k].endTime
          /\ k < Len(riskWindows) =>
                riskWindows[k].endTime < riskWindows[k + 1].startTime
          /\ inRiskWindow => riskWindows[k].endTime < riskWindowStart
    /\ pc = "done" => prediction.riskWindows = riskWindows

\* C1 witness: two windows recorded, one of them spanning several steps,
\* and a third one open
C1_Witness ==
    /\ Len(riskWindows) >= 2
    /\ \E k \in 1..Len(riskWindows) :
          riskWindows[k].startTime < riskWindows[k].endTime
    /\ inRiskWindow

\* the timeline holds one entry per completed iteration, entry k at
\* startTime + k * timeStepSeconds
TimelineShape ==
    /\ Len(timeline) = i
    /\ \A k \in 1..Len(timeline) :
          timeline[k].time = startTime + (k - 1) * timeStepSeconds * 1000
    /\ \A k \in 1..(Len(timeline) - 1) : timeline[k].time < timeline[k + 1].time

\* C2: runThermalSimulation terminates, returning exactly
\* floor(durationSeconds / timeStepSeconds) + 1 timeline entries, entry k at
\* startTime + k * timeStepSeconds (strictly increasing), and during a run
\* every step leaves the entries already appended as they are.  Termination
\* is the loop's variant: every iteration raises i by one, i never passes
\* steps + 1, where the loop is left and the function returns.
C2_TimelineLengthAndTermination ==
    /\ [](TimelineShape)
    /\ [](pc = "loop" => i <= (durationSeconds \div timeStepSeconds) + 1)
    /\ [](pc = "done" =>
            /\ Len(prediction.thermalTimeline) =
                  (durationSeconds \div timeStepSeconds) + 1
            /\ prediction.thermalTimeline = timeline)
    /\ [][run' = run =>
            /\ Len(timeline') >= Len(timeline)
            /\ SubSeq(timeline', 1, Len(timeline)) = timeline
            /\ i' > i \/ pc' = "done"]_vars

\* C2 witness: a returned timeline of at least four entries for a duration
\* that is no multiple of the step
C2_Witness ==
    /\ pc = "done"
    /\ Len(prediction.thermalTimeline) >= 4
    /\ durationSeconds % timeStepSeconds # 0

ThermalIdle ==
    /\ config = DEFAULT_SATELLITE_CONFIG
    /\ orbitalState = [altitude |-> 400, inclination |-> 900, betaAngle |-> 300]
    /\ startTime = 0
    /\ timeStepSeconds = 60
    /\ durationSeconds = 0
    /\ eclipseAt = [k \in 0..MaxSteps |-> FALSE]
    /\ timeline = << >>
    /\ riskWindows = << >>
    /\ temperature = 29300
    /\ peakTemp = 29300
    /\ minTemp = 29300
    /\ timeToOverheat = null
    /\ timeToUnderheat = null
    /\ inRiskWindow = FALSE
    /\ riskWindowStart = null
    /\ riskWindowType = "null"
    /\ wasEclipse = FALSE
    /\ consecutiveSunExposure = 0
    /\ i = 0
    /\ pc = "idle"
    /\ prediction = NoPrediction
    /\ run = 0
    /\ firstPrediction = NoPrediction

-----------------------------------------------------------------------------
(* Collision engine: calculateCollisionProbability *)

\* dx*dx + dy*dy + dz*dz
SumOfSquares(a, b) ==
    (a[1] - b[1]) * (a[1] - b[1]) + (a[2] - b[2]) * (a[2] - b[2])
      + (a[3] - b[3]) * (a[3] - b[3])

\* the distance in 1/10 km of two positions given in 1/10000 Earth radius:
\* sqrt(sum) * 0.6371 km, that is sqrt(sum * 40.59) tenths of a km
Distance(pos1, pos2) ==
    LET sum == SumOfSquares(pos1, pos2)
    IN  Sqrt(sum * 40 + (sum * 59) \div 100)

\* the speed of the first object in place of the relative speed
SpeedOfFirst(vel1, vel2) == Sqrt(SumOfSquares(vel1, <<0, 0, 0>>))

\* the relative speed, in tenths
RelativeSpeed(vel1, vel2) == Sqrt(SumOfSquares(vel1, vel2))

\* the divisor of timeToClosest, without its floor of 0.1
UnguardedSpeed(relativeSpeed) == relativeSpeed

\* Math.max(relativeSpeed, 0.1), in tenths
GuardedSpeed(relativeSpeed) == Max(relativeSpeed, 1)

\* the bands with the checks for 25 km and 100 km in the wrong order
ProbabilityBandsSwapped(distance) ==
    IF distance < 50 THEN 85
    ELSE IF distance < 1000 THEN 15
    ELSE IF distance < 250 THEN 45
    ELSE IF distance < 5000 THEN 2
    ELSE 0

\* the if-chain on the distance thresholds
ProbabilityBands(distance) ==
    IF distance < 50 THEN 85
    ELSE IF distance < 250 THEN 45
    ELSE IF distance < 1000 THEN 15
    ELSE IF distance < 5000 THEN 2
    ELSE 0

calculateCollisionProbability(pos1, vel1, pos2, vel2) ==
    LET distance == Distance(pos1, pos2)
        relativeSpeed == RelativeSpeed(vel1, vel2)
    IN  [distance |-> distance,
         probability |-> ProbabilityBands(distance),
         timeToClosest |-> JsDivide(distance, GuardedSpeed(relativeSpeed))]

-----------------------------------------------------------------------------
(* Collision engine: detectCollisionRisks *)

\* the entry pushed for the pair (a, b), or nothing
RiskOfPair(sat1, sat2) ==
    LET result == calculateCollisionProbability(sat1.position, sat1.velocity,
                                                sat2.position, sat2.velocity)
    IN  IF result.probability > 1
        THEN << [sat1 |-> sat1.name, sat2 |-> sat2.name,
                 distance |-> result.distance,
                 probability |-> result.probability,
                 timeToClosestApproach |-> result.timeToClosest] >>
        ELSE << >>

RECURSIVE InnerLoop(_, _, _)
\* the inner loop: j from a given index to the end
InnerLoop(sats, a, b) ==
    IF b > Len(sats) THEN << >>
    ELSE RiskOfPair(sats[a], sats[b]) \o InnerLoop(sats, a, b + 1)

RECURSIVE OuterLoop(_, _)
\* the outer loop: i from a given index to the end
OuterLoop(sats, a) ==
    IF a > Len(sats) THEN << >>
    ELSE InnerLoop(sats, a, a + 1) \o OuterLoop(sats, a + 1)

\* the comparator with its operands exchanged: (a, b) => a.probability - b.probability
Ascending(a, b) == a.probability - b.probability

\* the comparator (a, b) => b.probability - a.probability
Descending(a, b) == b.probability - a.probability

RECURSIVE InsertSorted(_, _)
\* x placed after every entry the comparator does not order after it
InsertSorted(sorted, x) ==
    IF sorted = << >> THEN << x >>
    ELSE IF Descending(Head(sorted), x) <= 0
         THEN << Head(sorted) >> \o InsertSorted(Tail(sorted), x)
         ELSE << x >> \o sorted

RECURSIVE SortRisks(_)
\* Array.prototype.sort: the stable sort under the comparator
SortRisks(list) ==
    IF list = << >> THEN << >>
    ELSE InsertSorted(SortRisks(SubSeq(list, 1, Len(list) - 1)),
                      list[Len(list)])

detectCollisionRisks(sats) == SortRisks(OuterLoop(sats, 1))

-----------------------------------------------------------------------------
(* Collision engine: the tracked population and its scans *)

Names == << "SAT-A", "SAT-B", "SAT-C", "SAT-D", "SAT-E" >>

\* the states the model draws from: positions at LEO radius (1.06 Earth
\* radii) between 0 and 1400 km apart, velocities of about 7.6 km/s; two of
\* them share a position, and two pairs share a velocity
TrackedStates ==
    { [position |-> <<10600, 0, 0>>, velocity |-> <<0, 76, 0>>],
      [position |-> <<10600, 0, 0>>, velocity |-> <<0, -70, 10>>],
      [position |-> <<10607, 0, 0>>, velocity |-> <<0, 76, 0>>],
      [position |-> <<10640, 0, 0>>, velocity |-> <<0, -70, 10>>],
      [position |-> <<10600, 0, 784>>, velocity |-> <<0, 76, 0>>],
      [position |-> <<10600, 2000, 0>>, velocity |-> <<0, -70, 10>>] }

\* an object enters the tracked population; the dashboard rescans
AddSatellite ==
    /\ Len(satellites) < MaxSatellites
    /\ \E o \in TrackedStates :
          satellites' = Append(satellites,
                               [name |-> Names[Len(satellites) + 1],
                                position |-> o.position,
                                velocity |-> o.velocity])
    /\ risks' = detectCollisionRisks(satellites')
    /\ UNCHANGED notCollision

\* the population is handed over in another order; the dashboard rescans
SwapSatellites ==
    /\ \E k \in 1..(Len(satellites) - 1) :
          satellites' = [satellites EXCEPT ![k] = satellites[k + 1],
                                           ![k + 1] = satellites[k]]
    /\ risks' = detectCollisionRisks(satellites')
    /\ UNCHANGED notCollision

CollisionInit ==
    /\ satellites = << >>
    /\ risks = detectCollisionRisks(<< >>)
    /\ ThermalIdle
    /\ ScoreIdle
    /\ PropulsionIdle
    /\ HandlerIdle
    /\ ServiceIdle

CollisionNext == AddSatellite \/ SwapSatellites

SpecCollision == CollisionInit /\ [][CollisionNext]_vars

-----------------------------------------------------------------------------
(* Collision engine: claims *)

\* the index pairs a < b of the tracked population
Pairs == { pr \in (1..Len(satellites)) \X (1..Len(satellites)) : pr[1] < pr[2] }

\* calculateCollisionProbability on the pair
PairResult(pr) ==
    calculateCollisionProbability(satellites[pr[1]].position,
                                  satellites[pr[1]].velocity,
                                  satellites[pr[2]].position,
                                  satellites[pr[2]].velocity)

\* C4: the probability of every pair is the step function of its distance
\* d: 0.85 if d < 5 km, 0.45 if 5 <= d < 25, 0.15 if 25 <= d < 100, 0.02 if
\* 100 <= d < 500, 0 if d >= 500; a pair farther apart never has the higher
\* probability, and every probability lies in [0, 1].
C4_ProbabilityIsStepFunction ==
    LET results == { PairResult(pr) : pr \in Pairs }
    IN  /\ \A r \in results :
              LET d == r.distance
                  p == r.probability
              IN  /\ d < 50 => p = 85
                  /\ (50 <= d /\ d < 250) => p = 45
                  /\ (250 <= d /\ d < 1000) => p = 15
                  /\ (1000 <= d /\ d < 5000) => p = 2
                  /\ d >= 5000 => p = 0
                  /\ 0 <= p /\ p <= 100
        /\ \A r1, r2 \in results :
              /\ r1.distance < r2.distance => r1.probability >= r2.probability
              /\ r1.distance = r2.distance => r1.probability = r2.probability

\* C4 witness: three pairs in three different bands, one of them beyond
\* 500 km and one between 25 km and 100 km
C4_Witness ==
    /\ Cardinality({ PairResult(pr).probability : pr \in Pairs }) >= 3
    /\ \E pr \in Pairs : PairResult(pr).distance >= 5000
    /\ \E pr \in Pairs : PairResult(pr).probability = 15

\* the entries of the result that stand for the pair
EntriesOf(pr) ==
    { k \in 1..Len(risks) :
        /\ risks[k].sat1 = satellites[pr[1]].name
        /\ risks[k].sat2 = satellites[pr[2]].name }

\* C5: detectCollisionRisks returns exactly one entry for every pair i < j
\* whose probability exceeds 0.01, carrying that pair's distance, probability
\* and time to closest approach, no entry for any other pair, and the list
\* is ordered by probability non-increasing.
C5_OneEntryPerRiskyPairSorted ==
    /\ \A pr \in Pairs :
          IF PairResult(pr).probability > 1
          THEN /\ Cardinality(EntriesOf(pr)) = 1
               /\ \A k \in EntriesOf(pr) :
                     /\ risks[k].distance = PairResult(pr).distance
                     /\ risks[k].probability = PairResult(pr).probability
                     /\ risks[k].timeToClosestApproach
                           = PairResult(pr).timeToClosest
          ELSE EntriesOf(pr) = {}
    /\ Len(risks) = Cardinality({ pr \in Pairs : PairResult(pr).probability > 1 })
    /\ \A k \in 1..(Len(risks) - 1) :
          risks[k].probability >= risks[k + 1].probability

\* C5 witness: three objects, one pair dropped, and the two retained pairs
\* returned in the opposite of the scan order
C5_Witness ==
    /\ Len(satellites) = 3
    /\ Len(risks) = 2
    /\ risks[1].probability > risks[2].probability
    /\ risks[1].sat1 = satellites[2].name
    /\ risks[2].sat1 = satellites[1].name

\* a risk read without the order of its two names
Unordered(r) ==
    [pair |-> {r.sat1, r.sat2}, distance |-> r.distance,
     probability |-> r.probability,
     timeToClosestApproach |-> r.timeToClosestApproach]

RiskSet(list) == { Unordered(list[k]) : k \in 1..Len(list) }

\* C6: handing the same objects to detectCollisionRisks in another order
\* (every permutation is a chain of exchanges of neighbours) returns the
\* same set of risks, each read as (unordered pair of names, distance,
\* probability, time to closest approach), again sorted by probability
\* descending.
C6_PermutationInvariant ==
    [][Len(satellites') = Len(satellites) =>
         /\ RiskSet(risks') = RiskSet(risks)
         /\ Len(risks') = Len(risks)
         /\ \A k \in 1..(Len(risks') - 1) :
               risks'[k].probability >= risks'[k + 1].probability]_vars

\* C6 witness: a population of three with different velocities whose scan
\* returns two risks of different probability, the first of them between
\* the second and third object (so it was reached by exchanges)
C6_Witness ==
    /\ Len(satellites) = 3
    /\ satellites[1].name = "SAT-C"
    /\ satellites[3].name = "SAT-A"
    /\ satellites[1].velocity # satellites[3].velocity
    /\ Len(risks) >= 2
    /\ risks[1].probability > risks[Len(risks)].probability

\* C7: with fewer than two objects detectCollisionRisks returns the empty
\* list; two objects at one position, whatever their velocities, get
\* distance 0, probability 0.85 and the finite time to closest approach 0.
C7_DegenerateInputs ==
    /\ Len(satellites) < 2 => risks = << >>
    /\ \A pr \in Pairs :
          satellites[pr[1]].position = satellites[pr[2]].position =>
             /\ PairResult(pr).distance = 0
             /\ PairResult(pr).probability = 85
             /\ PairResult(pr).timeToClosest = 0
             /\ \E k \in 1..Len(risks) :
                   /\ risks[k].sat1 = satellites[pr[1]].name
                   /\ risks[k].sat2 = satellites[pr[2]].name
                   /\ risks[k].probability = 85
                   /\ risks[k].timeToClosestApproach = 0

\* C7 witness: two objects at one position with one velocity (relative
\* speed 0), reported with probability 0.85
C7_Witness ==
    /\ Len(satellites) = 2
    /\ satellites[1].position = satellites[2].position
    /\ satellites[1].velocity = satellites[2].velocity
    /\ Len(risks) = 1
    /\ risks[1].probability = 85

-----------------------------------------------------------------------------
(* Collision engine: calculateRiskScore *)

\* collisionRisks.filter(pred).length
Filtered(list, keep) == { k \in 1..Len(list) : keep[k] }

\* the high-risk filter without its upper limit: r.probability > 0.2
IsHighNoUpperLimit(r) == r.probability > 20

\* the high-risk filter: r.probability > 0.2 && r.probability <= 0.5
IsHigh(r) == r.probability > 20 /\ r.probability <= 50

\* the critical-risk filter: r.probability > 0.5
IsCritical(r) == r.probability > 50

\* the score before rounding, in 1/200 of a point
RawScore(total, list) ==
    LET congestionFactor == Min(total * 3, 6000)
        criticalRisks == Cardinality(Filtered(list, [k \in 1..Len(list) |-> IsCritical(list[k])]))
        highRisks == Cardinality(Filtered(list, [k \in 1..Len(list) |-> IsHigh(list[k])]))
        collisionFactor == 200 * (criticalRisks * 10 + highRisks * 5)
        densityFactor == Min(Len(list), 100) * 40
    IN  Min(congestionFactor + collisionFactor + densityFactor, 20000)

\* Math.round: the nearest integer, halves upwards
calculateRiskScore(total, list) == (RawScore(total, list) + 100) \div 200

\* the risk probabilities the model draws from: one critical, the largest
\* that is high, the largest that is neither
ScoreProbabilities == {85, 50, 20}

\* the object counts the model draws from
ObjectCounts == {0, 100, 1000, 1990, 2000, 2600}

\* the tracked population grows
RaiseTotalObjects ==
    /\ \E n \in ObjectCounts : n > totalObjects /\ totalObjects' = n
    /\ riskScore' = calculateRiskScore(totalObjects', collisionRisks)
    /\ UNCHANGED collisionRisks
    /\ UNCHANGED notScore

\* one more risk is reported
AddRisk ==
    /\ Len(collisionRisks) < MaxRisks
    /\ \E p \in ScoreProbabilities :
          collisionRisks' = Append(collisionRisks,
              [sat1 |-> "SAT-A", sat2 |-> "SAT-B", distance |-> 0,
               probability |-> p, timeToClosestApproach |-> 0])
    /\ riskScore' = calculateRiskScore(totalObjects, collisionRisks')
    /\ UNCHANGED totalObjects
    /\ UNCHANGED notScore

ScoreInit ==
    /\ totalObjects = 0
    /\ collisionRisks = << >>
    /\ riskScore = calculateRiskScore(0, << >>)
    /\ ThermalIdle
    /\ CollisionIdle
    /\ PropulsionIdle
    /\ HandlerIdle
    /\ ServiceIdle

ScoreNext == RaiseTotalObjects \/ AddRisk

SpecScore == ScoreInit /\ [][ScoreNext]_vars

\* 200 * the sum the claim rounds
ClaimedSum ==
    LET critical == Cardinality({ k \in 1..Len(collisionRisks) :
                                    collisionRisks[k].probability > 50 })
        high == Cardinality({ k \in 1..Len(collisionRisks) :
                                /\ collisionRisks[k].probability > 20
                                /\ collisionRisks[k].probability <= 50 })
    IN  Min(20000, Min(totalObjects * 3, 6000) + 2000 * critical + 1000 * high
                     + Min(Len(collisionRisks) * 40, 4000))

\* C8: calculateRiskScore returns an integer in [0, 100], the nearest
\* integer to min(100, min(totalObjects/2000, 1)*30 + 10*count(p > 0.5)
\* + 5*count(0.2 < p <= 0.5) + min(length/100, 1)*20); it does not decrease
\* when totalObjects grows with the list fixed, nor when a risk with
\* probability above 0.5 is added.
C8_RiskScoreBoundedMonotone ==
    /\ [](/\ riskScore \in 0..100
          /\ 200 * riskScore - 100 <= ClaimedSum
          /\ ClaimedSum < 200 * riskScore + 100)
    /\ [][(totalObjects' > totalObjects /\ collisionRisks' = collisionRisks)
             => riskScore' >= riskScore]_vars
    /\ [][(/\ totalObjects' = totalObjects
           /\ Len(collisionRisks') = Len(collisionRisks) + 1
           /\ collisionRisks'[Len(collisionRisks')].probability > 50)
             => riskScore' >= riskScore]_vars

\* C8 witness: the sum passes 100 and is clamped, with a risk of
\* probability exactly 0.5 and one of exactly 0.2 in the list
C8_Witness ==
    /\ riskScore = 100
    /\ totalObjects = 2600
    /\ \E k \in 1..Len(collisionRisks) : collisionRisks[k].probability = 50
    /\ \E k \in 1..Len(collisionRisks) : collisionRisks[k].probability = 20

-----------------------------------------------------------------------------
(* Propulsion engine: constants.  Masses are in 1/10 kg, delta-v in cm/s,  *)
(* days in 1/10 day, percentages in 1/100 of a percent.                    *)

\* standard gravity 9.80665 m/s^2, in 1/100000 m/s^2
G0 == 980665

DEFAULT_PROPULSION ==
    [dryMass |-> 8500, propellantMass |-> 1200, initialPropellant |-> 1500,
     specificImpulse |-> 290, thrustLevel |-> 22,
     minPropellantReserve |-> 80]

\* delta-v entries in 1/10 m/s
MISSION_PARAMS ==
    [nominalLifetimeYears |-> 7,
     stationKeepingDeltaVPerYear |-> 150,
     averageCollisionAvoidanceDeltaV |-> 5,
     expectedCollisionManeuversPerYear |-> 3,
     orbitDecayCompensationDeltaVPerYear |-> 80]

-----------------------------------------------------------------------------
(* Propulsion engine: functions *)

\* Math.log(m0 / m1) in millionths, by ln(a/b) = 2 atanh((a-b)/(a+b))
LnRatio(m0, m1) ==
    LET z6 == ((m0 - m1) * 1000000) \div (m0 + m1)
        z4 == z6 \div 100
        zsq6 == (z4 * z4) \div 100
        cube6 == (zsq6 * z4) \div 10000
        fifth6 == (cube6 * (zsq6 \div 100)) \div 10000
    IN  2 * (z6 + cube6 \div 3 + fifth6 \div 5)

\* isp * G0 * Math.log(m0 / m1), in cm/s
RocketEquation(isp, m0, m1) ==
    LET ve == (isp * G0) \div 10000
        ln6 == LnRatio(m0, m1)
    IN  (ve * (ln6 \div 1000) + (ve * (ln6 % 1000)) \div 1000) \div 100

\* the guard of calculateDeltaV with a strict comparison: m1 < dryMass
ExceedsAvailableStrict(m1, dryMass) == m1 < dryMass

\* the guard of calculateDeltaV: m1 <= propellant.dryMass
ExceedsAvailable(m1, dryMass) == m1 <= dryMass

calculateDeltaV(propellant, used) ==
    LET m0 == propellant.dryMass + propellant.propellantMass
        m1 == m0 - used
    IN  IF ExceedsAvailable(m1, propellant.dryMass)
        THEN Infinity
        ELSE RocketEquation(propellant.specificImpulse, m0, m1)

calculateTotalDeltaVCapacity(p) ==
    LET usablePropellant == p.propellantMass - p.minPropellantReserve
    IN  IF usablePropellant <= 0 THEN 0
        ELSE calculateDeltaV(p, usablePropellant)

calculateDeltaVFromMass(dryMass, propellantMass, isp) ==
    IF propellantMass <= 0 THEN 0
    ELSE RocketEquation(isp, dryMass + propellantMass, dryMass)

\* the status bands with the boundaries in the more severe band
StatusOfInclusive(operationalMargin) ==
    IF operationalMargin <= 1000 THEN "critical"
    ELSE IF operationalMargin <= 2500 THEN "warning"
    ELSE IF operationalMargin <= 5000 THEN "caution"
    ELSE "nominal"

\* let status = 'nominal'; if (operationalMargin < 10) ... else if ...
StatusOf(operationalMargin) ==
    IF operationalMargin < 1000 THEN "critical"
    ELSE IF operationalMargin < 2500 THEN "warning"
    ELSE IF operationalMargin < 5000 THEN "caution"
    ELSE "nominal"

calculateMissionLifetimeState(p, cumulative) ==
    LET usedPropellant == p.initialPropellant - p.propellantMass
        totalCapacity ==
            calculateDeltaVFromMass(p.dryMass,
                p.initialPropellant - p.minPropellantReserve,
                p.specificImpulse)
        remainingCapacity == calculateTotalDeltaVCapacity(p)
        annualDeltaVBudget ==
            MISSION_PARAMS.stationKeepingDeltaVPerYear
            + MISSION_PARAMS.orbitDecayCompensationDeltaVPerYear
            + MISSION_PARAMS.averageCollisionAvoidanceDeltaV
              * MISSION_PARAMS.expectedCollisionManeuversPerYear
        remainingDays ==
            IF remainingCapacity = Infinity THEN Infinity
            ELSE (remainingCapacity * 365) \div annualDeltaVBudget
        nominalDays == MISSION_PARAMS.nominalLifetimeYears * 365
        lifetimePercentage ==
            IF remainingDays = Infinity THEN 10000
            ELSE Min(10000, (remainingDays * 1000) \div nominalDays)
        propellantPercentage ==
            (p.propellantMass * 10000) \div p.initialPropellant
        operationalMargin ==
            Min(((p.propellantMass - p.minPropellantReserve) * 10000)
                    \div p.initialPropellant,
                lifetimePercentage)
    IN  [remainingPropellant |-> p.propellantMass,
         usedPropellant |-> usedPropellant,
         cumulativeDeltaV |-> cumulative,
         totalDeltaVCapacity |-> totalCapacity,
         remainingDeltaV |-> remainingCapacity,
         estimatedLifetimeDays |-> Max(0, remainingDays),
         nominalLifetimeDays |-> nominalDays * 10,
         lifetimePercentage |-> lifetimePercentage,
         propellantPercentage |-> propellantPercentage,
         operationalMargin |-> operationalMargin,
         status |-> StatusOf(operationalMargin)]


-----------------------------------------------------------------------------
(* Propulsion engine: maneuver planning *)

\* deltaV / exhaustVelocity in millionths, deltaV in cm/s
VelocityRatio(isp, dv) ==
    LET ve == (isp * G0) \div 1000
        a == dv * 1000
    IN  (a \div ve) * 1000 + ((a % ve) * 1000) \div ve

\* Math.exp(x) cut after the linear term
ExpLinear(x6) == 1000000 + x6

\* Math.exp(x) in millionths, x in millionths; the series is cut after the
\* fifth power, which is exact to a millionth for |x| below 0.4
Exp(x6) ==
    LET x2 == ((x6 \div 10) * (x6 \div 10)) \div 10000
        x3 == (x2 * (x6 \div 100)) \div 10000
        x4 == (x3 * (x6 \div 100)) \div 10000
        x5 == (x4 * (x6 \div 100)) \div 10000
    IN  1000000 + x6 + x2 \div 2 + x3 \div 6 + x4 \div 24 + x5 \div 120

\* currentMass / massRatio in 1/1000 kg, currentMass in 1/10 kg
FinalMass(currentMass, massRatio) ==
    IF massRatio = Infinity THEN 0
    ELSE LET a == currentMass * 100000
         IN  (a \div massRatio) * 1000 + ((a % massRatio) * 1000) \div massRatio

\* Math.max(0, propellantRequired)
ClampedRequired(propellantRequired) == Max(0, propellantRequired)

\* the propellant for a delta-v, to the nearest 1/10 kg
calculatePropellantRequired(p, dv) ==
    LET massRatio == IF dv = Infinity THEN Infinity
                     ELSE Exp(VelocityRatio(p.specificImpulse, dv))
        currentMass == p.dryMass + p.propellantMass
        finalMass == FinalMass(currentMass, massRatio)
        propellantRequired == (currentMass * 100 - finalMass + 50) \div 100
    IN  ClampedRequired(propellantRequired)

\* the multiplier of the threat level, in tenths
ThreatMultiplier(threatLevel) ==
    CASE threatLevel = "critical" -> 25
      [] threatLevel = "high" -> 18
      [] threatLevel = "medium" -> 12
      [] threatLevel = "low" -> 6
      [] OTHER -> 10

\* the multiplier of the miss distance in tenths, for every distance the
\* same as below 0.5 km
MissMultiplierFlat(missDistance) == 15

\* the multiplier of the miss distance, in tenths; missDistance in 1/10 km
MissMultiplier(missDistance) ==
    IF missDistance < 5 THEN 15
    ELSE IF missDistance < 10 THEN 12
    ELSE IF missDistance > 50 THEN 7
    ELSE 10

\* the deltaV of createCollisionAvoidanceManeuver, in cm/s
ManeuverDeltaV(threatLevel, missDistance) ==
    LET \* in 1/1000 m/s
        baseDeltaV == MISSION_PARAMS.averageCollisionAvoidanceDeltaV
                        * ThreatMultiplier(threatLevel)
                        * MissMultiplier(missDistance)
    IN  \* Math.round(baseDeltaV * 100) / 100
        (baseDeltaV + 5) \div 10

\* The plan of a collision avoidance maneuver.  id and executionTime are
\* read from the clock and left out; the description is kept as the two
\* values the source formats into it.  Rounding propellantRequired to
\* 1/1000 kg leaves a multiple of 1/10 kg as it is.
createCollisionAvoidanceManeuver(p, threatLevel, missDistance) ==
    LET dv == ManeuverDeltaV(threatLevel, missDistance)
    IN  [type |-> "collision_avoidance",
         deltaV |-> dv,
         propellantRequired |-> calculatePropellantRequired(p, dv),
         description |-> [threatLevel |-> threatLevel,
                          missDistance |-> missDistance],
         priority |-> threatLevel]

\* the strategies with the monitoring-only option offered at every priority
generateAlternativeStrategiesAnyPriority(plan, lifetimeImpactDays) ==
    IF plan.type = "collision_avoidance"
    THEN << [name |-> "In-track timing adjustment",
             deltaV |-> plan.deltaV * 6,
             propellantSaved |-> plan.propellantRequired * 4,
             lifetimeSaved |-> JsTimes(lifetimeImpactDays, 4)],
            [name |-> "Cross-track offset",
             deltaV |-> plan.deltaV * 7,
             propellantSaved |-> plan.propellantRequired * 3,
             lifetimeSaved |-> JsTimes(lifetimeImpactDays, 3)],
            [name |-> "Enhanced monitoring only",
             deltaV |-> 0,
             propellantSaved |-> plan.propellantRequired * 10,
             lifetimeSaved |-> JsTimes(lifetimeImpactDays, 10)] >>
    ELSE << >>

\* the strategies are given in tenths of the units of the plan
generateAlternativeStrategies(plan, lifetimeImpactDays) ==
    IF plan.type = "collision_avoidance"
    THEN << [name |-> "In-track timing adjustment",
             deltaV |-> plan.deltaV * 6,
             propellantSaved |-> plan.propellantRequired * 4,
             lifetimeSaved |-> JsTimes(lifetimeImpactDays, 4)],
            [name |-> "Cross-track offset",
             deltaV |-> plan.deltaV * 7,
             propellantSaved |-> plan.propellantRequired * 3,
             lifetimeSaved |-> JsTimes(lifetimeImpactDays, 3)] >>
         \o (IF plan.priority # "critical"
             THEN << [name |-> "Enhanced monitoring only",
                      deltaV |-> 0,
                      propellantSaved |-> plan.propellantRequired * 10,
                      lifetimeSaved |-> JsTimes(lifetimeImpactDays, 10)] >>
             ELSE << >>)
    ELSE << >>

\* the recommendation with the margin rule tested before the rejection rule
RecommendationOptimizeFirst(priority, marginReduction, statusAfter) ==
    IF priority = "critical" \/ priority = "high" THEN "execute"
    ELSE IF marginReduction > 500 THEN "optimize"
    ELSE IF marginReduction > 1000 /\ priority = "low" THEN "reject"
    ELSE IF statusAfter = "critical" THEN "defer"
    ELSE "execute"

\* the recommendation of assessManeuverImpact
Recommendation(priority, marginReduction, statusAfter) ==
    IF priority = "critical" \/ priority = "high" THEN "execute"
    ELSE IF marginReduction > 1000 /\ priority = "low" THEN "reject"
    ELSE IF marginReduction > 500 THEN "optimize"
    ELSE IF statusAfter = "critical" THEN "defer"
    ELSE "execute"

assessManeuverImpact(p, plan, currentCumulativeDeltaV) ==
    LET lifetimeBefore ==
            calculateMissionLifetimeState(p, currentCumulativeDeltaV)
        postManeuverPropulsion ==
            [p EXCEPT !.propellantMass = @ - plan.propellantRequired]
        lifetimeAfter ==
            calculateMissionLifetimeState(postManeuverPropulsion,
                JsAdd(currentCumulativeDeltaV, plan.deltaV))
        lifetimeReductionDays ==
            JsSubtract(lifetimeBefore.estimatedLifetimeDays,
                       lifetimeAfter.estimatedLifetimeDays)
        marginReduction ==
            lifetimeBefore.operationalMargin - lifetimeAfter.operationalMargin
    IN  [maneuver |-> plan,
         lifetimeBefore |-> lifetimeBefore,
         lifetimeAfter |-> lifetimeAfter,
         lifetimeReductionDays |-> lifetimeReductionDays,
         marginReduction |-> marginReduction,
         recommendation |-> Recommendation(plan.priority, marginReduction,
                                           lifetimeAfter.status),
         alternativeStrategies |->
             generateAlternativeStrategies(plan, lifetimeReductionDays)]

\* the effect that keeps maneuverImpact up to date: null without a selected
\* maneuver, else the assessment of the selected one
AssessSelected(p, plan, cumulative) ==
    IF plan = NoManeuver THEN NoImpact
    ELSE assessManeuverImpact(p, plan, cumulative)

-----------------------------------------------------------------------------
(* Propulsion engine: the states it is applied to *)

\* the default spacecraft, a cold-gas thruster, and a spacecraft with no
\* end-of-life reserve
PropulsionConfigs ==
    { DEFAULT_PROPULSION,
      [DEFAULT_PROPULSION EXCEPT !.specificImpulse = 60],
      [DEFAULT_PROPULSION EXCEPT !.minPropellantReserve = 0] }

\* remaining propellant: full, default, around each status boundary of the
\* default spacecraft (50, 25, 10 per cent), at and below the reserve, empty
PropellantLevels ==
    {1500, 1200, 830, 829, 605, 455, 454, 230, 229, 80, 50, 0}

\* propellant handed to calculateDeltaV
BurnAmounts == {-50, 0, 375, 750, 1199, 1200, 1201}

\* a caller asks for the delta-v of burning `used`
RequestBurn ==
    /\ \E used \in BurnAmounts :
          /\ used # propellantUsed
          /\ propellantUsed' = used
          /\ deltaV' = calculateDeltaV(propulsion, used)
    /\ UNCHANGED <<propulsion, cumulativeDeltaV, lifetime, maneuver, impact>>
    /\ UNCHANGED notPropulsion

\* the post-maneuver state of assessManeuverImpact: the propellant of the
\* maneuver is taken out of the tank, its delta-v added to the cumulative
\* delta-v, and the lifetime state is computed again
PostManeuver ==
    /\ propellantUsed > 0
    /\ propulsion.propellantMass - propellantUsed >= -MaxOverdraw
    /\ propulsion' = [propulsion EXCEPT
                         !.propellantMass = @ - propellantUsed]
    /\ cumulativeDeltaV' = JsAdd(cumulativeDeltaV, deltaV)
    /\ lifetime' = calculateMissionLifetimeState(propulsion',
                                                 cumulativeDeltaV')
    /\ deltaV' = calculateDeltaV(propulsion', propellantUsed)
    /\ impact' = AssessSelected(propulsion', maneuver, cumulativeDeltaV')
    /\ UNCHANGED <<propellantUsed, maneuver>>
    /\ UNCHANGED notPropulsion

\* miss distances on both sides of and at 0.5, 1 and 5 km, in 1/10 km
MissDistances == {3, 5, 10, 50, 52}

ThreatLevels == {"critical", "high", "medium", "low"}

\* delta-v of a maneuver that is no collision avoidance, in cm/s
TransferDeltaVs == {-500, 0, 5000, 20000}

\* the plans a maneuver is selected from: collision avoidance plans made
\* for the current spacecraft, and plans of another type whose propellant
\* is worked out by calculatePropellantRequired
ProposedManeuvers ==
    { createCollisionAvoidanceManeuver(propulsion, t, d) :
          t \in ThreatLevels, d \in MissDistances }
    \cup { [type |-> "orbit_raise", deltaV |-> dv,
            propellantRequired |-> calculatePropellantRequired(propulsion, dv),
            description |-> [threatLevel |-> "none", missDistance |-> 0],
            priority |-> pr] :
          dv \in TransferDeltaVs, pr \in ThreatLevels }

\* the selection with the maneuver applied to the spacecraft itself
SelectManeuverInPlace ==
    /\ \E plan \in ProposedManeuvers :
          /\ plan # maneuver
          /\ maneuver' = plan
          /\ impact' = assessManeuverImpact(propulsion, plan,
                                            cumulativeDeltaV)
          /\ propulsion' = [propulsion EXCEPT
                               !.propellantMass = @ - plan.propellantRequired]
    /\ UNCHANGED <<cumulativeDeltaV, lifetime, propellantUsed, deltaV>>
    /\ UNCHANGED notPropulsion

\* a maneuver is selected, and its impact assessed
SelectManeuver ==
    /\ \E plan \in ProposedManeuvers :
          /\ plan # maneuver
          /\ maneuver' = plan
          /\ impact' = assessManeuverImpact(propulsion, plan,
                                            cumulativeDeltaV)
    /\ UNCHANGED <<propulsion, cumulativeDeltaV, lifetime, propellantUsed,
                   deltaV>>
    /\ UNCHANGED notPropulsion

PropulsionInit ==
    /\ \E cfg \in PropulsionConfigs, level \in PropellantLevels :
          propulsion = [cfg EXCEPT !.propellantMass = level]
    /\ cumulativeDeltaV \in {0, 4500}
    /\ lifetime = calculateMissionLifetimeState(propulsion, cumulativeDeltaV)
    /\ propellantUsed = 0
    /\ deltaV = calculateDeltaV(propulsion, 0)
    /\ maneuver = NoManeuver
    /\ impact = NoImpact
    /\ ThermalIdle
    /\ CollisionIdle
    /\ ScoreIdle
    /\ HandlerIdle
    /\ ServiceIdle

PropulsionNext == RequestBurn \/ PostManeuver \/ SelectManeuver

SpecPropulsion == PropulsionInit /\ [][PropulsionNext]_vars

-----------------------------------------------------------------------------
(* Propulsion engine: claims *)

C10_InfinityIffExhausted ==
    /\ deltaV = Infinity <=> propellantUsed >= propulsion.propellantMass
    /\ (0 <= propellantUsed /\ propellantUsed < propulsion.propellantMass)
          => (deltaV # Infinity /\ deltaV >= 0)

\* the burn asks for exactly the propellant in a tank that is not empty
C10_Witness ==
    /\ propulsion.propellantMass > 0
    /\ propellantUsed = propulsion.propellantMass
    /\ deltaV = Infinity

\* the propellant worked out for the delta-v of burning propellantUsed
RecoveredMass == calculatePropellantRequired(propulsion, deltaV)

\* the delta-v of burning the propellant worked out for the maneuver's
\* delta-v
RecoveredDeltaV ==
    calculateDeltaV(propulsion,
        calculatePropellantRequired(propulsion, maneuver.deltaV))

ThreatRank(threatLevel) ==
    CASE threatLevel = "low" -> 1
      [] threatLevel = "medium" -> 2
      [] threatLevel = "high" -> 3
      [] threatLevel = "critical" -> 4

\* 0.5 m/s times the two multipliers of the claim, in 1/1000 m/s
ClaimedDeltaV(threatLevel, missDistance) ==
    5 * (CASE threatLevel = "critical" -> 25
           [] threatLevel = "high" -> 18
           [] threatLevel = "medium" -> 12
           [] threatLevel = "low" -> 6)
      * (IF missDistance < 5 THEN 15
         ELSE IF 5 <= missDistance /\ missDistance < 10 THEN 12
         ELSE IF 10 <= missDistance /\ missDistance <= 50 THEN 10
         ELSE 7)

\* C12: the delta-v of a collision avoidance plan is 0.5 m/s times the
\* threat multiplier times the miss-distance multiplier, rounded to two
\* decimals, and its priority is the threat level; the delta-v of the plans
\* strictly increases with the threat level at a fixed miss
\* distance, never increases with the miss distance at a fixed threat level,
\* and critical at 0.3 km is strictly larger than low at 5.2 km.
C12_ManeuverDeltaVTable ==
    /\ maneuver.type = "collision_avoidance" =>
          LET claimed == ClaimedDeltaV(maneuver.description.threatLevel,
                                       maneuver.description.missDistance)
          IN  /\ 10 * maneuver.deltaV - 5 <= claimed
              /\ claimed < 10 * maneuver.deltaV + 5
              /\ maneuver.priority = maneuver.description.threatLevel
    /\ \A t1 \in ThreatLevels, t2 \in ThreatLevels, d \in MissDistances :
          ThreatRank(t1) < ThreatRank(t2) =>
             ManeuverDeltaV(t1, d) < ManeuverDeltaV(t2, d)
    /\ \A t \in ThreatLevels, d1 \in MissDistances, d2 \in MissDistances :
          d1 <= d2 =>
             ManeuverDeltaV(t, d1) >= ManeuverDeltaV(t, d2)
    /\ ManeuverDeltaV("critical", 3) > ManeuverDeltaV("low", 52)

\* the plan for a critical threat at 0.3 km is selected: 1.88 m/s
C12_Witness ==
    /\ maneuver.type = "collision_avoidance"
    /\ maneuver.description.threatLevel = "critical"
    /\ maneuver.description.missDistance = 3
    /\ maneuver.deltaV = 188
    /\ maneuver.priority = "critical"

\* C14 as stated: no propellant mass is negative -- the propellant of every
\* plan is at least 0, and no assessed impact has a lifetimeAfter whose
\* remainingPropellant is negative, whatever the plan asks for.
C14_PropellantNeverNegative ==
    /\ maneuver.propellantRequired >= 0
    /\ impact.recommendation # "none" =>
          impact.lifetimeAfter.remainingPropellant >= 0

-----------------------------------------------------------------------------
(* Thermal engine: non-physical configurations *)

NonPhysical(cfg) ==
    cfg.mass <= 0 \/ cfg.surfaceArea <= 0 \/ cfg.specificHeat <= 0

\* C13: runThermalSimulation rejects a configuration with mass <= 0,
\* surfaceArea <= 0 or specificHeat <= 0 before simulating: no timeline entry
\* is produced and no prediction is returned.
C13_NonPhysicalConfigRejected ==
    NonPhysical(config) =>
        /\ timeline = << >>
        /\ pc # "done"
        /\ prediction = NoPrediction

-----------------------------------------------------------------------------
(* Thermal prediction handler: parsing *)
(* Query parameter texts are sequences of characters; parsed numbers are   *)
(* in thousandths (altitude 400 km = 400000, betaAngle 0.3 rad = 300),     *)
(* durations in seconds.                                                   *)

IsDigit(ch) == ch \in {"0", "1", "2", "3", "4", "5", "6", "7", "8", "9"}

DigitValue(ch) ==
    CHOOSE d \in 0..9 :
        <<"0", "1", "2", "3", "4", "5", "6", "7", "8", "9">>[d + 1] = ch

RECURSIVE DigitRun(_, _)
\* the number of digits of text from position k on
DigitRun(text, k) ==
    IF k <= Len(text) /\ IsDigit(text[k]) THEN 1 + DigitRun(text, k + 1) ELSE 0

RECURSIVE DigitsValue(_, _, _)
\* the value of the n digits of text that start at position k
DigitsValue(text, k, n) ==
    IF n = 0 THEN 0
    ELSE 10 * DigitsValue(text, k, n - 1) + DigitValue(text[k + n - 1])

\* where the numeral starts: after an optional sign
NumeralStart(text) ==
    IF Len(text) > 0 /\ text[1] \in {"+", "-"} THEN 2 ELSE 1

NumeralSign(text) == IF Len(text) > 0 /\ text[1] = "-" THEN -1 ELSE 1

\* parseFloat: the longest prefix that is a decimal numeral, NaN if there is
\* none (texts with an exponent or a leading blank are not among the inputs)
parseFloat(text) ==
    LET start == NumeralStart(text)
        intLen == DigitRun(text, start)
        point == start + intLen
        hasPoint == point <= Len(text) /\ text[point] = "."
        fracLen == IF hasPoint THEN DigitRun(text, point + 1) ELSE 0
        frac3 == DigitsValue(text, point + 1, Min(fracLen, 3))
        thousandths == IF fracLen = 0 THEN 0
                       ELSE IF fracLen = 1 THEN frac3 * 100
                       ELSE IF fracLen = 2 THEN frac3 * 10
                       ELSE frac3
    IN  IF intLen = 0 /\ fracLen = 0 THEN NaN
        ELSE NumeralSign(text)
               * (DigitsValue(text, start, intLen) * 1000 + thousandths)

\* parseInt: the longest prefix that is an integer numeral, NaN if there is
\* none
parseInt(text) ==
    LET start == NumeralStart(text)
        intLen == DigitRun(text, start)
    IN  IF intLen = 0 THEN NaN
        ELSE NumeralSign(text) * DigitsValue(text, start, intLen)

-----------------------------------------------------------------------------
(* Thermal prediction handler: runSimulation *)

DEFAULT_CONFIG ==
    [mass |-> 1000, surfaceArea |-> 2000, absorptivity |-> 30,
     emissivity |-> 85, specificHeat |-> 900, internalPower |-> 500,
     minTemp |-> 22300, maxTemp |-> 37300]

\* the switch on satelliteType
SelectConfig(satelliteType) ==
    CASE satelliteType = "cubesat" ->
           [mass |-> 4, surfaceArea |-> 6, absorptivity |-> 25,
            emissivity |-> 90, specificHeat |-> 900, internalPower |-> 8,
            minTemp |-> 25300, maxTemp |-> 34300]
      [] satelliteType = "iss" ->
           [mass |-> 45000, surfaceArea |-> 120000, absorptivity |-> 35,
            emissivity |-> 85, specificHeat |-> 900, internalPower |-> 75000,
            minTemp |-> 28300, maxTemp |-> 31300]
      [] OTHER -> DEFAULT_CONFIG

\* 1000 * Math.sin of an angle of 0..1571 milliradians (Taylor series)
Sin(theta) ==
    LET x2 == (theta * theta) \div 1000
        t3 == (theta * x2) \div 1000
        t5 == (t3 * x2) \div 1000
        t7 == (t5 * x2) \div 1000
    IN  theta - t3 \div 6 + t5 \div 120 - t7 \div 5040

RECURSIVE AsinSearch(_, _, _)
\* the largest angle in lo..hi whose sine is at most x
AsinSearch(x, lo, hi) ==
    IF lo >= hi THEN lo
    ELSE LET mid == (lo + hi + 1) \div 2
         IN  IF Sin(mid) <= x THEN AsinSearch(x, mid, hi)
                              ELSE AsinSearch(x, lo, mid - 1)

\* Math.asin in milliradians of x in thousandths, 0 <= x <= 1000
Asin(x) == AsinSearch(x, 0, 1571)

\* meanMotion in microradians per second: sqrt(3.986e14 / a^3), a in metres
MeanMotion(altitude) ==
    LET a == EARTH_RADIUS + altitude
        q == (398600 * 1000) \div a
    IN  (Sqrt(q * 1000) * 1000) \div a

\* isInEclipse(altitude, orbitAngle, 0) at loop index k; altitude in km or
\* NaN, and every comparison with NaN is false
HandlerIsInEclipse(altitude, k, timeStepSeconds0) ==
    IF altitude = NaN THEN FALSE
    ELSE LET satRadius == EARTH_RADIUS + altitude
             earthAngularRadius ==
                 1000 * Asin((EARTH_RADIUS * 1000) \div satRadius)
             orbitAngle == MeanMotion(altitude) * k * timeStepSeconds0
             relativeAngle == orbitAngle % 6283185
         IN  /\ relativeAngle > 3141593 - earthAngularRadius
             /\ relativeAngle < 3141593 + earthAngularRadius

\* netFlux of the handler's calculateHeatFluxes
HandlerNetFlux(cfg, altitude, temp, eclipse) ==
    LET viewFactor == IF altitude = NaN THEN NaN ELSE ViewFactor(altitude)
        solarFlux == IF eclipse THEN 0
                     ELSE (SOLAR_CONSTANT * cfg.absorptivity) \div 100
        albedoFlux ==
            IF eclipse THEN 0
            ELSE IF viewFactor = NaN THEN NaN
            ELSE (((((SOLAR_CONSTANT * EARTH_ALBEDO) \div 100) * viewFactor)
                     \div 1000) * cfg.absorptivity) \div 100
        earthIRFlux ==
            IF viewFactor = NaN THEN NaN
            ELSE (((EARTH_IR_EMISSION * viewFactor) \div 1000)
                     * cfg.emissivity) \div 100
        internalFlux == JsDivide(cfg.internalPower * 100, cfg.surfaceArea)
        radiatedFlux == RadiatedFlux(cfg, temp)
    IN  JsSubtract(JsAdd(JsAdd(JsAdd(solarFlux, albedoFlux), earthIRFlux),
                         internalFlux), radiatedFlux)

\* one iteration of the loop of runSimulation, time step 60 s; altitude in
\* thousandths of a km
SimulationStep(cfg, altitude, st) ==
    LET km == IF altitude = NaN THEN NaN ELSE altitude \div 1000
        eclipse == HandlerIsInEclipse(km, st.i, 60)
        netFlux == HandlerNetFlux(cfg, km, st.temperature, eclipse)
        newTemp == propagateTemperature(cfg, st.temperature, netFlux, 60)
    IN  [temperature |-> newTemp,
         peakTemp |-> JsMax(st.peakTemp, newTemp),
         minTemp |-> JsMin(st.minTemp, newTemp),
         timeToOverheat |->
             IF JsGreater(newTemp, cfg.maxTemp) /\ st.timeToOverheat = null
             THEN st.i * 60 ELSE st.timeToOverheat,
         i |-> st.i + 1]

\* i <= steps with steps = Math.floor(durationSeconds / 60), false if
\* steps is NaN
SimulationContinues(st, duration) ==
    duration # NaN /\ st.i <= duration \div 60

\* riskScore < 25 ? 'low' : riskScore < 50 ? 'moderate' : ...
ScoreLevel(score) ==
    IF JsLess(score, 25) THEN "low"
    ELSE IF JsLess(score, 50) THEN "moderate"
    ELSE IF JsLess(score, 75) THEN "high"
    ELSE "critical"

\* the code of runSimulation after its loop, st the locals; betaAngle in
\* milliradians.  The formatted strings of the result
\* (timeToOverheatFormatted, summary) and the Celsius copies are left out.
SimulationResult(cfg, orb, st) ==
    LET range == JsMax(JsMax(JsAdd(JsSubtract(st.peakTemp, cfg.maxTemp), 5000),
                             JsAdd(JsSubtract(cfg.minTemp, st.minTemp), 5000)),
                       0)
        betaRisk == IF JsGreater(IF orb.betaAngle = NaN THEN NaN
                                 ELSE IF orb.betaAngle >= 0 THEN orb.betaAngle
                                 ELSE -orb.betaAngle, 1000)
                    THEN 20 ELSE 0
        \* range / 100 * 60 + betaRisk, rounded
        riskScore0 == IF IsFinite(range)
                      THEN Min(100, (range * 6 + betaRisk * 1000 + 500)
                                       \div 1000)
                      ELSE JsMin(100, range)
        hot == IF JsGreater(st.peakTemp, cfg.maxTemp - 3000)
               THEN << [type |-> "attitude_slew",
                        priority |-> IF JsGreater(st.peakTemp, cfg.maxTemp)
                                     THEN "required" ELSE "recommended"],
                       [type |-> "duty_cycle", priority |-> "recommended"] >>
               ELSE << >>
        cold == IF JsLess(st.minTemp, cfg.minTemp + 3000)
                THEN << [type |-> "heater_activation",
                         priority |-> IF JsLess(st.minTemp, cfg.minTemp)
                                      THEN "required" ELSE "recommended"] >>
                ELSE << >>
    IN  [peakTemperature |-> st.peakTemp, minTemperature |-> st.minTemp,
         timeToOverheat |-> st.timeToOverheat, riskScore |-> riskScore0,
         riskLevel |-> ScoreLevel(riskScore0), mitigations |-> hot \o cold]

-----------------------------------------------------------------------------
(* Thermal prediction handler: serve *)

\* the query of a request without parameters; an empty text stands for a
\* parameter that is absent or empty (both are falsy)
NoQuery ==
    [altitude |-> << >>, inclination |-> << >>, betaAngle |-> << >>,
     duration |-> << >>, type |-> ""]

\* the body of a request without one.  kind is "none", "invalid" (no JSON
\* text), "null" (the JSON text null) or "object"; a numeric field of 0
\* stands for a field that is missing or 0, a type of "" for one that is
\* missing or empty (all falsy)
NoFields ==
    [altitude |-> 0, inclination |-> 0, betaAngle |-> 0, duration |-> 0,
     type |-> ""]
NoBody == [kind |-> "none", fields |-> NoFields]

\* url.searchParams.get(name) || fallback
SearchParamOr(text, fallback) == IF text # << >> THEN text ELSE fallback

\* body.field || fallback, the field a number
FieldOr(value, fallback) ==
    IF value # 0 /\ value # NaN THEN value ELSE fallback

\* ... || 'default'
TypeOr(type) == IF type # "" THEN type ELSE "default"

\* the branch for GET
QueryParameters(query) ==
    [altitude |-> parseFloat(SearchParamOr(query.altitude, <<"4", "0", "0">>)),
     inclination |->
         parseFloat(SearchParamOr(query.inclination, <<"0", ".", "9">>)),
     betaAngle |->
         parseFloat(SearchParamOr(query.betaAngle, <<"0", ".", "3">>)),
     duration |->
         parseInt(SearchParamOr(query.duration, <<"1", "0", "8", "0", "0">>)),
     satelliteType |-> TypeOr(query.type)]

\* the branch for POST, the body an object
BodyParameters(fields) ==
    [altitude |-> FieldOr(fields.altitude, 400000),
     inclination |-> FieldOr(fields.inclination, 900),
     betaAngle |-> FieldOr(fields.betaAngle, 300),
     duration |-> FieldOr(fields.duration, 10800),
     satelliteType |-> TypeOr(fields.type)]

\* does the try block throw?  await req.json() rejects on a body that is no
\* JSON text, and body.altitude throws on the body null
Throws(req) == req.method = "POST" /\ req.body.kind \in {"invalid", "null"}

\* error.message of the exception
ErrorMessage(req) ==
    IF req.body.kind = "invalid" THEN "Unexpected token in JSON"
    ELSE "Cannot read properties of null (reading 'altitude')"

\* JSON.stringify of a number: NaN and the infinities are written as null
JsonNumber(x) == IF IsFinite(x) THEN x ELSE null

\* the success response; the timestamp is left out
SuccessResponse(p, st) ==
    LET result == SimulationResult(SelectConfig(p.satelliteType),
                                   [altitude |-> p.altitude,
                                    inclination |-> p.inclination,
                                    betaAngle |-> p.betaAngle], st)
    IN  [status |-> 200,
         body |-> [success |-> TRUE,
                   data |-> [result EXCEPT
                       !.peakTemperature = JsonNumber(@),
                       !.minTemperature = JsonNumber(@),
                       !.riskScore = JsonNumber(@)],
                   parameters |-> [altitude |-> JsonNumber(p.altitude),
                                   inclination |-> JsonNumber(p.inclination),
                                   betaAngle |-> JsonNumber(p.betaAngle),
                                   duration |-> JsonNumber(p.duration),
                                   satelliteType |-> p.satelliteType]]]

\* the parameters after the parsing block; a request that is neither GET
\* nor POST keeps the defaults of the let declarations
ParsedParameters(req) ==
    IF req.method = "GET" THEN QueryParameters(req.query)
    ELSE IF req.method = "POST" THEN BodyParameters(req.body.fields)
    ELSE [altitude |-> 400000, inclination |-> 900, betaAngle |-> 300,
          duration |-> 10800, satelliteType |-> "default"]

\* the requests of the model
Queries ==
    [altitude : {<< >>, <<"4", "0", "0">>, <<"a", "b", "c">>,
                 <<"4", "0", "0", "k", "m">>},
     inclination : {<< >>, <<"1", ".", "5">>, <<"x">>},
     betaAngle : {<< >>, <<"1", ".", "2">>, <<"-">>},
     duration : {<< >>, <<"1", "2", "0">>, <<"1", "2", "0", ".", "7">>,
                 <<"s", "o", "o", "n">>},
     type : {"", "cubesat", "iss"}]

Bodies ==
    { [kind |-> "invalid", fields |-> NoFields],
      [kind |-> "null", fields |-> NoFields] }
    \cup { [kind |-> "object", fields |-> f] :
             f \in [altitude : {0, 400000, 800000}, inclination : {0},
                    betaAngle : {0, 1200}, duration : {0, 120},
                    type : {"", "cubesat"}] }

Requests ==
    { [method |-> "GET", query |-> q, body |-> NoBody] : q \in Queries }
    \cup { [method |-> "POST", query |-> NoQuery, body |-> b] : b \in Bodies }
    \cup { [method |-> mth, query |-> NoQuery, body |-> NoBody] :
             mth \in {"OPTIONS", "PUT"} }

\* a request arrives
Receive ==
    /\ request = NoRequest \/ response # NoResponse
    /\ request' \in Requests
    /\ parameters' = NoParameters
    /\ simulation' = SimulationStart
    /\ response' = NoResponse
    /\ UNCHANGED notHandler

\* the handler up to the call of runSimulation: the preflight answer, the
\* parsing of the parameters, and the catch block if that throws
Parse ==
    /\ request # NoRequest
    /\ parameters = NoParameters
    /\ response = NoResponse
    /\ IF request.method = "OPTIONS"
       THEN /\ response' = [status |-> 200, body |-> [empty |-> TRUE]]
            /\ UNCHANGED parameters
       ELSE IF Throws(request)
       THEN /\ response' = [status |-> 500,
                            body |-> [success |-> FALSE,
                                      error |-> ErrorMessage(request)]]
            /\ UNCHANGED parameters
       ELSE parameters' = ParsedParameters(request) /\ UNCHANGED response
    /\ UNCHANGED <<request, simulation>>
    /\ UNCHANGED notHandler

\* one iteration of the loop of runSimulation
Simulate ==
    /\ parameters # NoParameters
    /\ response = NoResponse
    /\ SimulationContinues(simulation, parameters.duration)
    /\ simulation' = SimulationStep(SelectConfig(parameters.satelliteType),
                                    parameters.altitude, simulation)
    /\ UNCHANGED <<request, parameters, response>>
    /\ UNCHANGED notHandler

\* the rest of runSimulation and the success response
Respond ==
    /\ parameters # NoParameters
    /\ response = NoResponse
    /\ ~SimulationContinues(simulation, parameters.duration)
    /\ response' = SuccessResponse(parameters, simulation)
    /\ UNCHANGED <<request, parameters, simulation>>
    /\ UNCHANGED notHandler

HandlerInit ==
    /\ HandlerIdle
    /\ ServiceIdle
    /\ ThermalIdle
    /\ CollisionIdle
    /\ ScoreIdle
    /\ PropulsionIdle

HandlerNext == Receive \/ Parse \/ Simulate \/ Respond

SpecHandler == HandlerInit /\ [][HandlerNext]_vars

\* a GET parameter text that is a decimal numeral as a whole
IsNumeral(text) ==
    LET start == NumeralStart(text)
        intLen == DigitRun(text, start)
        point == start + intLen
        fracLen == IF point <= Len(text) /\ text[point] = "."
                   THEN DigitRun(text, point + 1) ELSE 0
        total == (start - 1) + intLen + (IF fracLen > 0 THEN 1 + fracLen ELSE 0)
    IN  intLen + fracLen > 0 /\ total = Len(text)

\* a GET parameter that is present and does not parse as a number
MalformedText(text) == text # << >> /\ ~IsNumeral(text)

\* the request's input is malformed
Malformed(req) ==
    \/ /\ req.method = "GET"
       /\ \/ MalformedText(req.query.altitude)
          \/ MalformedText(req.query.inclination)
          \/ MalformedText(req.query.betaAngle)
          \/ MalformedText(req.query.duration)
    \/ req.method = "POST" /\ req.body.kind = "invalid"

Served == request # NoRequest /\ response # NoResponse

IsSuccess(resp) == "success" \in DOMAIN resp.body /\ resp.body.success

IsError(resp) ==
    /\ resp.status = 500
    /\ "success" \in DOMAIN resp.body
    /\ ~resp.body.success
    /\ "error" \in DOMAIN resp.body

\* C15: every request with malformed input (a GET parameter altitude,
\* inclination, betaAngle or duration that is no number, or a POST body that
\* is no JSON) is answered with HTTP 500 and {success: false, error}; a
\* response with success: true only comes from well-formed parameters.
C15_MalformedInputGets500 ==
    Served =>
        /\ Malformed(request) => IsError(response)
        /\ IsSuccess(response) => ~Malformed(request)

-----------------------------------------------------------------------------
(* Thermal engine: risk windows, breach times, risk levels, risk score *)

\* a loop iteration is being taken
LoopIteration == pc = "loop" /\ Len(timeline') = Len(timeline) + 1

\* the iteration opens a window: none was open before it, and one is open
\* after it or was opened and recorded by it
WindowOpened ==
    /\ LoopIteration
    /\ ~inRiskWindow
    /\ inRiskWindow' \/ Len(riskWindows') > Len(riskWindows)

\* the type of the window the iteration opens
OpenedType ==
    IF inRiskWindow' THEN riskWindowType'
    ELSE riskWindows'[Len(riskWindows')].type

\* the trigger of that type holds at this iteration and did not hold at
\* the one before; the beta angle is the same at every iteration
BecameTrue(type) ==
    CASE type = "eclipse_exit" -> wasEclipse /\ ~wasEclipse'
      [] type = "eclipse_entry" -> ~wasEclipse /\ wasEclipse'
      [] type = "prolonged_sun" ->
           consecutiveSunExposure <= 3600 /\ consecutiveSunExposure' > 3600
      [] type = "high_beta" -> i = 0
      [] OTHER -> FALSE

\* C16: a risk window is opened at a step only when no window is open and a
\* triggering condition becomes true at that step (it did not hold at the
\* step before), and an open window is closed and appended to riskWindows
\* at the first step whose risk level is nominal.
C16_WindowOpensWhenTriggerBecomesTrue ==
    [][/\ WindowOpened => BecameTrue(OpenedType)
       /\ LoopIteration =>
            IF timeline'[Len(timeline')].riskLevel = "nominal"
            THEN ~inRiskWindow'
            ELSE inRiskWindow => (inRiskWindow' /\ riskWindows' = riskWindows)
      ]_vars

\* the temperatures of the timeline entries from the window's start step
\* to its end step
WindowTemperatures(w) ==
    { timeline[k].temperature :
        k \in { n \in 1..Len(timeline) :
                  /\ timeline[n].time >= w.startTime
                  /\ timeline[n].time <= w.endTime } }

\* the highest of them
WindowPeak(w) ==
    CHOOSE t \in WindowTemperatures(w) :
        \A u \in WindowTemperatures(w) : u <= t

\* C17: every recorded risk window has peakTemp equal to the highest
\* temperature among the timeline entries from its start step to its end
\* step, and severity critical if and only if that peak exceeds
\* config.maxTemp - 20, otherwise warning.
C17_WindowPeakIsPeakWithinWindow ==
    \A k \in 1..Len(riskWindows) :
        /\ riskWindows[k].peakTemp = WindowPeak(riskWindows[k])
        /\ riskWindows[k].severity =
              (IF WindowPeak(riskWindows[k]) > config.maxTemp - 2000
               THEN "critical" ELSE "warning")

\* the loop indices whose temperature is above config.maxTemp
OverheatedSteps ==
    { k \in 0..(Len(timeline) - 1) :
        timeline[k + 1].temperature > config.maxTemp }

\* the loop indices whose temperature is below config.minTemp
UnderheatedSteps ==
    { k \in 0..(Len(timeline) - 1) :
        timeline[k + 1].temperature < config.minTemp }

\* null if no step is in the set, else the time of its smallest step
FirstTime(stepSet) ==
    IF stepSet = {} THEN null
    ELSE timeStepSeconds * (CHOOSE k \in stepSet : \A n \in stepSet : k <= n)

\* C18: timeToOverheat is null if and only if no step's temperature exceeds
\* config.maxTemp, and otherwise is i * timeStepSeconds for the smallest
\* step index i with temperature > maxTemp, whatever breaches follow; the
\* same holds for timeToUnderheat with temperature < config.minTemp, and
\* the returned prediction carries both values.
C18_FirstBreachTimes ==
    /\ timeToOverheat = FirstTime(OverheatedSteps)
    /\ timeToUnderheat = FirstTime(UnderheatedSteps)
    /\ timeToOverheat = null <=> OverheatedSteps = {}
    /\ timeToUnderheat = null <=> UnderheatedSteps = {}
    /\ pc = "done" =>
          /\ prediction.timeToOverheat = timeToOverheat
          /\ prediction.timeToUnderheat = timeToUnderheat

\* a run with a first breach of maxTemp after step 0 and a later breach,
\* and one with the same for minTemp
C18_Witness ==
    \/ /\ Cardinality(OverheatedSteps) >= 2
       /\ 0 \notin OverheatedSteps
       /\ timeToOverheat > 0
       /\ timeToOverheat < (Len(timeline) - 1) * timeStepSeconds
    \/ /\ Cardinality(UnderheatedSteps) >= 2
       /\ 0 \notin UnderheatedSteps
       /\ timeToUnderheat > 0
       /\ timeToUnderheat < (Len(timeline) - 1) * timeStepSeconds

\* a margin to either limit below the given number of centi-kelvin
MarginBelow(entry, margin) ==
    \/ config.maxTemp - entry.temperature < margin
    \/ entry.temperature - config.minTemp < margin

\* C19: the riskLevel of every timeline entry is a function of the entry's
\* temperature and the config limits only: critical iff a margin is below
\* 10 K, warning iff not critical and a margin is below 30 K, nominal
\* otherwise; entries with the same temperature have the same level
\* whatever their eclipse flag and whether or not a window is open.
C19_RiskLevelFromTemperatureOnly ==
    /\ \A k \in 1..Len(timeline) :
          /\ timeline[k].riskLevel \in {"critical", "warning", "nominal"}
          /\ timeline[k].riskLevel = "critical"
                <=> MarginBelow(timeline[k], 1000)
          /\ timeline[k].riskLevel = "warning"
                <=> /\ ~MarginBelow(timeline[k], 1000)
                    /\ MarginBelow(timeline[k], 3000)
          /\ timeline[k].riskLevel = "nominal"
                <=> ~MarginBelow(timeline[k], 3000)
    /\ \A j, k \in 1..Len(timeline) :
          timeline[j].temperature = timeline[k].temperature
              => timeline[j].riskLevel = timeline[k].riskLevel

\* a timeline with a critical and a warning entry of different eclipse
\* flags, the second of them recorded while a window was open
C19_Witness ==
    /\ inRiskWindow
    /\ \E a, b \in 1..Len(timeline) :
          /\ timeline[a].riskLevel = "critical"
          /\ timeline[b].riskLevel = "warning"
          /\ timeline[a].isEclipse # timeline[b].isEclipse
          /\ a < b

\* the number of returned windows of a severity
ReturnedWindows(severity) ==
    Cardinality({ k \in 1..Len(prediction.riskWindows) :
                    prediction.riskWindows[k].severity = severity })

\* 200 times the sum the claim rounds:
\* 50 * max(0, (peak - maxTemp + 50) / 100, (minTemp limit - min + 50) / 100)
\*   + 15 * critical windows + 8 * warning windows
ClaimedRisk ==
    Max(0, Max(prediction.peakTemperature - config.maxTemp + 5000,
               config.minTemp - prediction.minTemperature + 5000))
      + 200 * (15 * ReturnedWindows("critical")
                 + 8 * ReturnedWindows("warning"))

\* C20: the returned riskScore is in [0, 100] and is
\* min(100, round(50 * max(0, (peak - maxTemp + 50) / 100,
\* (minTemp limit - min + 50) / 100) + 15 * critical windows
\* + 8 * warning windows)), counting the windows of the returned
\* riskWindows list only.
C20_RiskScoreFormula ==
    pc = "done" =>
        /\ prediction.riskScore \in 0..100
        /\ IF ClaimedRisk >= 19900
           THEN prediction.riskScore = 100
           ELSE /\ 200 * prediction.riskScore - 100 <= ClaimedRisk
                /\ ClaimedRisk < 200 * prediction.riskScore + 100

\* a returned prediction with a temperature term, a counted warning window
\* and a window still open that is not counted, below the clamp
C20_Witness ==
    /\ pc = "done"
    /\ inRiskWindow
    /\ ReturnedWindows("warning") >= 1
    /\ ClaimedRisk > 200 * 8 * ReturnedWindows("warning")
    /\ prediction.riskScore < 100

\* ---------------------------------------------------------------------
\* Thermal engine: mitigations of the returned prediction
\* ---------------------------------------------------------------------

\* the returned mitigations of a type and temperature impact
Emitted(type, kelvin) ==
    { k \in 1..Len(prediction.mitigations) :
        /\ prediction.mitigations[k].type = type
        /\ prediction.mitigations[k].impact = kelvin }

\* every returned mitigation of a type and impact has the priority
PriorityIs(type, kelvin, priority) ==
    \A k \in Emitted(type, kelvin) :
        prediction.mitigations[k].priority = priority

HotMargin == prediction.peakTemperature > config.maxTemp - 3000

ColdMargin == prediction.minTemperature < config.minTemp + 3000

Overheated == prediction.peakTemperature > config.maxTemp

Underheated == prediction.minTemperature < config.minTemp

\* the hot pair and the cold pair are each emitted once under their condition
\* and not at all otherwise
EmittedIffInMargin ==
    /\ Cardinality(Emitted("attitude_slew", -15)) = IF HotMargin THEN 1 ELSE 0
    /\ Cardinality(Emitted("duty_cycle", -8)) = IF HotMargin THEN 1 ELSE 0
    /\ Cardinality(Emitted("heater_activation", 12))
         = IF ColdMargin THEN 1 ELSE 0
    /\ Cardinality(Emitted("attitude_slew", 10)) = IF ColdMargin THEN 1 ELSE 0

\* C21 as stated: the hot mitigations (attitude_slew and duty_cycle) are
\* emitted iff peak > maxTemp - 30 and have priority required whenever
\* peak > maxTemp; the cold mitigations (heater_activation and attitude_slew)
\* are emitted iff min < minTemp + 30 and have priority required whenever
\* min < minTemp.
C21_BothOfEachPairRequired ==
    pc = "done" =>
        /\ EmittedIffInMargin
        /\ Overheated => /\ PriorityIs("attitude_slew", -15, "required")
                         /\ PriorityIs("duty_cycle", -8, "required")
        /\ Underheated => /\ PriorityIs("heater_activation", 12, "required")
                          /\ PriorityIs("attitude_slew", 10, "required")

\* C21 amended: the hot mitigations (attitude_slew and duty_cycle) are emitted
\* iff peak > maxTemp - 30 and the cold mitigations (heater_activation and
\* attitude_slew) iff min < minTemp + 30; the hot attitude_slew has priority
\* required whenever peak > maxTemp and recommended otherwise, the
\* heater_activation has priority required whenever min < minTemp and
\* recommended otherwise, the duty_cycle always has priority recommended and
\* the cold attitude_slew always has priority optional.
C21_FirstOfEachPairRequired ==
    pc = "done" =>
        /\ EmittedIffInMargin
        /\ PriorityIs("attitude_slew", -15,
                      IF Overheated THEN "required" ELSE "recommended")
        /\ PriorityIs("duty_cycle", -8, "recommended")
        /\ PriorityIs("heater_activation", 12,
                      IF Underheated THEN "required" ELSE "recommended")
        /\ PriorityIs("attitude_slew", 10, "optional")

\* a returned prediction whose minimum is below the lower limit, with the
\* cold pair emitted, and whose peak is inside the upper margin without
\* exceeding the limit, with the hot pair emitted
C21_Witness ==
    /\ pc = "done"
    /\ Underheated
    /\ HotMargin
    /\ ~Overheated
    /\ Emitted("heater_activation", 12) # {}
    /\ Emitted("duty_cycle", -8) # {}

\* ---------------------------------------------------------------------
\* Propulsion engine: the assessment of a selected maneuver
\* ---------------------------------------------------------------------

\* a maneuver has been assessed
Assessed == impact.recommendation # "none"

\* the maneuver of the assessment is urgent: priority critical or high
Urgent == impact.maneuver.priority \in {"critical", "high"}

\* C22: the recommendation of assessManeuverImpact is the first matching
\* rule of: priority critical or high gives execute; else marginReduction
\* above 10 with priority low gives reject; else marginReduction above 5
\* gives optimize; else post-maneuver status critical gives defer; else
\* execute.  A critical or high maneuver is never rejected, optimized or
\* deferred, and reject is only produced for priority low.
C22_RecommendationFirstMatchingRule ==
    Assessed =>
        LET rejects == /\ impact.marginReduction > 1000
                       /\ impact.maneuver.priority = "low"
            optimizes == impact.marginReduction > 500
            defers == impact.lifetimeAfter.status = "critical"
        IN  /\ Urgent => impact.recommendation = "execute"
            /\ ~Urgent /\ rejects => impact.recommendation = "reject"
            /\ ~Urgent /\ ~rejects /\ optimizes
                 => impact.recommendation = "optimize"
            /\ ~Urgent /\ ~rejects /\ ~optimizes /\ defers
                 => impact.recommendation = "defer"
            /\ ~Urgent /\ ~rejects /\ ~optimizes /\ ~defers
                 => impact.recommendation = "execute"
            /\ impact.recommendation = "reject"
                 => impact.maneuver.priority = "low"
            /\ impact.recommendation \in {"reject", "optimize", "defer"}
                 => ~Urgent

\* a low-priority maneuver that takes more than 10 points of margin and
\* whose post-maneuver status is critical is rejected, not deferred
C22_Witness ==
    /\ Assessed
    /\ impact.maneuver.priority = "low"
    /\ impact.marginReduction > 1000
    /\ impact.lifetimeAfter.status = "critical"
    /\ impact.recommendation = "reject"

\* a strategy that costs tenths/10 of the delta-v of the assessed maneuver
\* and saves saved/10 of its propellant and of the lifetime reduction
\* (strategies are held in tenths of the units of the plan)
StrategyIs(strategy, name, tenths, saved) ==
    /\ strategy.name = name
    /\ strategy.deltaV = tenths * impact.maneuver.deltaV
    /\ strategy.propellantSaved = saved * impact.maneuver.propellantRequired
    /\ strategy.lifetimeSaved
         = IF IsFinite(impact.lifetimeReductionDays)
           THEN saved * impact.lifetimeReductionDays
           ELSE impact.lifetimeReductionDays

\* C23: generateAlternativeStrategies returns the empty list for a maneuver
\* that is no collision avoidance; for a collision avoidance it returns, in
\* order, an in-track option (0.6 of the delta-v, 0.4 of the propellant and
\* of the lifetime saved), a cross-track option (0.7 of the delta-v, 0.3
\* saved), and then a monitoring-only option of zero delta-v that saves the
\* whole propellant and lifetime iff the priority is not critical: exactly 2
\* strategies for critical, 3 otherwise.
C23_AlternativeStrategies ==
    Assessed =>
        LET strategies == impact.alternativeStrategies
        IN  IF impact.maneuver.type # "collision_avoidance"
            THEN strategies = << >>
            ELSE /\ Len(strategies)
                      = IF impact.maneuver.priority = "critical" THEN 2
                        ELSE 3
                 /\ StrategyIs(strategies[1], "In-track timing adjustment",
                               6, 4)
                 /\ StrategyIs(strategies[2], "Cross-track offset", 7, 3)
                 /\ Len(strategies) = 3
                      => /\ strategies[3].name = "Enhanced monitoring only"
                         /\ strategies[3].deltaV = 0
                         /\ StrategyIs(strategies[3],
                                       "Enhanced monitoring only", 0, 10)

\* the assessment of a critical collision avoidance that costs delta-v,
\* propellant and lifetime: two strategies, none of them monitoring only
C23_Witness ==
    /\ Assessed
    /\ impact.maneuver.type = "collision_avoidance"
    /\ impact.maneuver.priority = "critical"
    /\ impact.maneuver.deltaV > 0
    /\ impact.maneuver.propellantRequired > 0
    /\ IsFinite(impact.lifetimeReductionDays)
    /\ impact.lifetimeReductionDays > 0
    /\ Len(impact.alternativeStrategies) = 2

\* the propulsion state assessManeuverImpact works the post-maneuver
\* lifetime out of: the given one with the propellant of the maneuver
\* taken out
VirtualPropulsion ==
    [dryMass |-> propulsion.dryMass,
     propellantMass |->
         propulsion.propellantMass - impact.maneuver.propellantRequired,
     initialPropellant |-> propulsion.initialPropellant,
     specificImpulse |-> propulsion.specificImpulse,
     thrustLevel |-> propulsion.thrustLevel,
     minPropellantReserve |-> propulsion.minPropellantReserve]

\* C24 (result): lifetimeBefore is calculateMissionLifetimeState of the
\* given propulsion and cumulative delta-v, lifetimeAfter is that of a copy
\* that differs only in propellantMass, lowered by the propellant of the
\* maneuver, with the delta-v of the maneuver added to the cumulative
\* delta-v, and lifetimeReductionDays and marginReduction are the
\* before-minus-after differences of estimatedLifetimeDays and
\* operationalMargin.
AssessmentIsVirtual ==
    Assessed =>
        /\ impact.lifetimeBefore
             = calculateMissionLifetimeState(propulsion, cumulativeDeltaV)
        /\ impact.lifetimeBefore.remainingPropellant
             = propulsion.propellantMass
        /\ impact.lifetimeAfter
             = calculateMissionLifetimeState(VirtualPropulsion,
                   JsAdd(cumulativeDeltaV, impact.maneuver.deltaV))
        /\ impact.lifetimeAfter.remainingPropellant
             = propulsion.propellantMass - impact.maneuver.propellantRequired
        /\ impact.lifetimeReductionDays
             = JsSubtract(impact.lifetimeBefore.estimatedLifetimeDays,
                          impact.lifetimeAfter.estimatedLifetimeDays)
        /\ impact.marginReduction
             = impact.lifetimeBefore.operationalMargin
                 - impact.lifetimeAfter.operationalMargin

\* C24: assessManeuverImpact applies the maneuver only virtually: the
\* propulsion object it is given is unchanged by the call in all six fields
\* (as is the cumulative delta-v), and its result always relates the
\* lifetime before to the lifetime of the post-maneuver copy as
\* AssessmentIsVirtual states.
C24_AssessmentLeavesPropulsion ==
    /\ []AssessmentIsVirtual
    /\ [][ (maneuver' # maneuver)
             => /\ propulsion' = propulsion
                /\ cumulativeDeltaV' = cumulativeDeltaV
                /\ impact'.maneuver = maneuver' ]_vars

\* an assessment of a maneuver that needs propellant, on a spacecraft whose
\* tank still holds what it held before the assessment
C24_Witness ==
    /\ Assessed
    /\ impact.maneuver.propellantRequired > 0
    /\ impact.lifetimeAfter.remainingPropellant < propulsion.propellantMass
    /\ lifetime.remainingPropellant = propulsion.propellantMass
    /\ impact.lifetimeReductionDays > 0
    /\ impact.marginReduction > 0

-----------------------------------------------------------------------------
(* RealSpaceDataService and the Dashboard that polls it.  Times are in     *)
(* seconds, the variations of getCurrentStats in percent.                  *)

\* private fetchInterval = 300000 (milliseconds)
fetchInterval == 300

\* setInterval(updateStats, 5000)
PollPeriod == 5

\* Math.round(n / d)
Round(n, d) == (2 * n + d) \div (2 * d)

\* the staleness test with the interval boundary counted as stale
StaleInclusive(at) == at - lastFetch >= fetchInterval

\* now.getTime() - this.lastFetch.getTime() > this.fetchInterval
Stale(at) == at - lastFetch > fetchInterval

\* what fetchSOCRATESData resolves to: null (response not ok, or an error
\* caught), or the conjunctions counted in the CSV
FetchOutcomes ==
    { NoSocratesData,
      [count |-> 0, highRisk |-> 0],
      [count |-> 40, highRisk |-> 3],
      [count |-> 40, highRisk |-> 7] }

\* Math.sin(Date.now() / 10000) * 0.2, sampled
TimeVariations == {-20, 0, 20}

\* (Math.random() - 0.5) * 0.1, sampled
RandomFactors == {-5, 0, 4}

\* updateRealData: this.realData after the fetch resolved to data
UpdatedRealData(data, at) ==
    IF data = NoSocratesData THEN realData
    ELSE [collisionAlerts |-> data.highRisk,
          predictedEvents |-> baselineStats.predictedEvents,
          riskScore |-> baselineStats.riskScore,
          lastUpdate |-> at]

\* the baseline taking the high-risk count as it is
UpdatedBaselineUnclamped(data) ==
    IF data = NoSocratesData THEN baselineStats
    ELSE [baselineStats EXCEPT !.collisionAlerts = data.highRisk]

\* updateRealData: this.baselineStats after the fetch resolved to data
UpdatedBaseline(data) ==
    IF data = NoSocratesData THEN baselineStats
    ELSE [baselineStats EXCEPT !.collisionAlerts = Max(data.highRisk, 5)]

\* getCurrentStats after the staleness test: the statistics returned for
\* a call made at time `at`
CurrentStats(baseline, real, timeVariation, randomFactor, at) ==
    LET baseCollisionAlerts ==
            IF real # NoRealData THEN Max(real.collisionAlerts, 5)
            ELSE baseline.collisionAlerts
        collisionAlerts ==
            Round(baseCollisionAlerts * (100 + timeVariation + randomFactor),
                  100)
        predictedEvents ==
            Round(baseline.predictedEvents
                    * (200 + timeVariation + 2 * randomFactor), 200)
        \* densityFactor * 15 is 0.75 * min(collisionAlerts, 20)
        score ==
            Round(400 * baseline.riskScore + 300 * Min(collisionAlerts, 20)
                    + 20 * randomFactor, 400)
    IN  [collisionAlerts |-> Max(collisionAlerts, 3),
         predictedEvents |-> Max(predictedEvents, 30),
         riskScore |-> Min(Max(score, 25), 65),
         lastUpdate |-> at]

\* updateStats after getCurrentStats has returned stats; captured is the
\* previousRiskScore of the render whose effect made the call
UpdateStats(stats, captured) ==
    /\ criticalAlert' = (stats.riskScore - captured >= 15)
    /\ previousRiskScore' = stats.riskScore
    /\ liveStats' = [collisionAlerts |-> stats.collisionAlerts,
                     predictedEvents |-> stats.predictedEvents,
                     riskScore |-> stats.riskScore]

\* updateStats calls getCurrentStats: a stale cache starts updateRealData
\* and the invocation awaits the fetch, else the statistics are returned
\* at once
Invoke(callback, captured) ==
    /\ event' = callback
    /\ IF Stale(now)
       THEN /\ awaiting' = Append(awaiting,
                                  [calledAt |-> now,
                                   previousRiskScore |-> captured])
            /\ UNCHANGED <<liveStats, previousRiskScore, criticalAlert>>
       ELSE /\ \E timeVariation \in TimeVariations,
                  randomFactor \in RandomFactors :
                  UpdateStats(CurrentStats(baselineStats, realData,
                                           timeVariation, randomFactor, now),
                              captured)
            /\ UNCHANGED awaiting
    /\ UNCHANGED <<baselineStats, realData, lastFetch, socratesData, now>>

\* the Dashboard is mounted: its effect calls updateStats and starts the
\* interval timer
Mount ==
    /\ intervalDue = null
    /\ effectRiskScore' = previousRiskScore
    /\ intervalDue' = now + PollPeriod
    /\ Invoke("mount", previousRiskScore)
    /\ UNCHANGED notService

\* the interval timer fires
Poll ==
    /\ intervalDue = now
    /\ intervalDue' = now + PollPeriod
    /\ Invoke("poll", effectRiskScore)
    /\ UNCHANGED effectRiskScore
    /\ UNCHANGED notService

\* previousRiskScore has changed: the effect is cleaned up and run again
Rerender ==
    /\ intervalDue # null
    /\ previousRiskScore # effectRiskScore
    /\ effectRiskScore' = previousRiskScore
    /\ intervalDue' = now + PollPeriod
    /\ Invoke("rerender", previousRiskScore)
    /\ UNCHANGED notService

\* the sequence without its k-th element
Without(seq, k) == SubSeq(seq, 1, k - 1) \o SubSeq(seq, k + 1, Len(seq))

\* the fetch of an awaiting invocation resolves: updateRealData finishes,
\* getCurrentStats returns and updateStats stores the statistics
FetchCompletes ==
    /\ \E k \in 1..Len(awaiting), data \in FetchOutcomes :
          /\ socratesData' = data
          /\ realData' = UpdatedRealData(data, now)
          /\ baselineStats' = UpdatedBaseline(data)
          /\ lastFetch' = now
          /\ awaiting' = Without(awaiting, k)
          /\ \E timeVariation \in TimeVariations,
                randomFactor \in RandomFactors :
                UpdateStats(CurrentStats(baselineStats', realData',
                                         timeVariation, randomFactor,
                                         awaiting[k].calledAt),
                            awaiting[k].previousRiskScore)
    /\ event' = "response"
    /\ UNCHANGED <<now, intervalDue, effectRiskScore>>
    /\ UNCHANGED notService

\* the clock moves on to the time the timer is due, once every callback
\* that is ready has run
Tick ==
    /\ intervalDue # null
    /\ now < intervalDue
    /\ previousRiskScore = effectRiskScore
    /\ intervalDue <= StartTime + MaxElapsed
    /\ \A k \in 1..Len(awaiting) :
          intervalDue - awaiting[k].calledAt <= MaxLatency
    /\ now' = intervalDue
    /\ event' = "tick"
    /\ UNCHANGED <<baselineStats, realData, lastFetch, awaiting, socratesData,
                   intervalDue, liveStats, previousRiskScore, effectRiskScore,
                   criticalAlert>>
    /\ UNCHANGED notService

ServiceInit ==
    /\ ServiceIdle
    /\ ThermalIdle
    /\ CollisionIdle
    /\ ScoreIdle
    /\ PropulsionIdle
    /\ HandlerIdle

ServiceNext == Mount \/ Poll \/ Rerender \/ FetchCompletes \/ Tick

SpecService == ServiceInit /\ [][ServiceNext]_vars

-----------------------------------------------------------------------------
(* RealSpaceDataService: claims *)

\* the callbacks that call getCurrentStats
CallEvents == {"mount", "poll", "rerender"}

\* the step is a call of getCurrentStats that starts a fetch
StartsFetch ==
    /\ Len(awaiting') = Len(awaiting) + 1
    /\ awaiting'[Len(awaiting')].calledAt = now
    /\ SubSeq(awaiting', 1, Len(awaiting)) = awaiting

\* C25: getCurrentStats follows a refresh-on-read policy: a call starts a
\* SOCRATES refetch if and only if more than fetchInterval (300000 ms) has
\* elapsed since lastFetch at the time of the call, so the very first call
\* always refetches, and a call made with no fetch outstanding within
\* fetchInterval of a completed refetch starts no fetch.
C25_RefreshOnRead ==
    [][ event' \in CallEvents =>
          /\ StartsFetch <=> (now - lastFetch > 300)
          /\ ~StartsFetch => awaiting' = awaiting
          /\ event' = "mount" => StartsFetch
          /\ (awaiting = << >> /\ lastFetch > 0 /\ now - lastFetch <= 300)
               => awaiting' = << >> ]_vars

\* the timer has fired exactly fetchInterval after a completed refetch and
\* the call has started no fetch
C25_Witness ==
    /\ event = "poll"
    /\ lastFetch >= StartTime
    /\ now - lastFetch = 300
    /\ awaiting = << >>
    /\ liveStats.riskScore > 0

\* C26: when the 5-second poll invokes getCurrentStats while an earlier
\* invocation is still awaiting its SOCRATES fetch, the later invocation
\* does not start a second fetch: at most one fetch is in flight at any
\* time.
C26_AtMostOneFetchInFlight == Len(awaiting) <= 1

\* C27: a refetch that yields no data leaves realData and baselineStats
\* unchanged but still advances lastFetch to the current time, so that a
\* call within fetchInterval of it starts no fetch; once realData has been
\* set it never returns to null; and baselineStats.collisionAlerts is at
\* least 5 in every reachable state.
C27_FailedRefetchKeepsData ==
    /\ [](baselineStats.collisionAlerts >= 5)
    /\ [][ /\ (event' = "response" /\ socratesData' = NoSocratesData)
                => /\ realData' = realData
                   /\ baselineStats' = baselineStats
                   /\ lastFetch' = now'
           /\ (event' \in CallEvents /\ socratesData = NoSocratesData
                 /\ lastFetch > 0 /\ now - lastFetch <= 300)
                => awaiting' = awaiting
           /\ realData # NoRealData => realData' # NoRealData ]_vars

\* with real data held, a later refetch, started after the interval had
\* elapsed, has yielded nothing: the data is still held, lastFetch is the
\* current time, and the baseline is the one the real data set
C27_Witness ==
    /\ event = "response"
    /\ socratesData = NoSocratesData
    /\ realData # NoRealData
    /\ realData.lastUpdate < now - 300
    /\ lastFetch = now
    /\ baselineStats.collisionAlerts = Max(realData.collisionAlerts, 5)

-----------------------------------------------------------------------------
(* Thermal engine: a window still open when the loop ends; the order of    *)
(* the triggers                                                            *)

\* the returned windows of one of the types
ReturnedOfType(types) ==
    { k \in 1..Len(prediction.riskWindows) :
        prediction.riskWindows[k].type \in types }

\* the window is closed at a step whose timeline entry is nominal
ClosedAtNominalStep(window) ==
    \E j \in 1..Len(prediction.thermalTimeline) :
        /\ prediction.thermalTimeline[j].time = window.endTime
        /\ prediction.thermalTimeline[j].riskLevel = "nominal"

\* C28: a risk window still open when the simulation loop ends is not
\* recorded: it is not in riskWindows (every returned window ended before
\* the open one started), it contributes nothing to the window term of
\* riskScore, and it cannot trigger the orbit-timing or the beta-management
\* mitigation, which follow the returned windows only; every window in
\* riskWindows was closed at a step whose timeline entry has riskLevel
\* nominal.
C28_OpenWindowNotRecorded ==
    pc = "done" =>
        /\ inRiskWindow =>
             \A k \in 1..Len(prediction.riskWindows) :
                 prediction.riskWindows[k].endTime < riskWindowStart
        /\ ClaimedRisk < 19900 =>
             /\ 200 * prediction.riskScore - 100 <= ClaimedRisk
             /\ ClaimedRisk < 200 * prediction.riskScore + 100
        /\ Emitted("orbit_timing", -5) # {}
             <=> ReturnedOfType({"eclipse_exit", "eclipse_entry"}) # {}
        /\ Emitted("attitude_slew", -12) # {}
             <=> ReturnedOfType({"high_beta"}) # {}
        /\ \A k \in 1..Len(prediction.riskWindows) :
               /\ ClosedAtNominalStep(prediction.riskWindows[k])
               /\ prediction.riskWindows[k].startTime
                    <= prediction.riskWindows[k].endTime

\* a returned prediction with an eclipse window still open at the end of
\* the loop, opened after a window that was recorded; no returned window is
\* an eclipse window, and no orbit-timing mitigation is emitted
C28_Witness ==
    /\ pc = "done"
    /\ inRiskWindow
    /\ riskWindowType \in {"eclipse_exit", "eclipse_entry"}
    /\ Len(prediction.riskWindows) >= 1
    /\ ReturnedOfType({"eclipse_exit", "eclipse_entry"}) = {}
    /\ Emitted("orbit_timing", -5) = {}

\* the trigger of a type holds at the iteration being taken
Holds(type) ==
    CASE type = "eclipse_exit" -> wasEclipse /\ ~wasEclipse'
      [] type = "eclipse_entry" -> ~wasEclipse /\ wasEclipse'
      [] type = "prolonged_sun" ->
           ~wasEclipse' /\ consecutiveSunExposure' > 3600
      [] type = "high_beta" ->
           orbitalState.betaAngle > 1047 \/ orbitalState.betaAngle < -1047
      [] OTHER -> FALSE

\* the order of the trigger blocks
TriggerOrder ==
    << "eclipse_exit", "eclipse_entry", "prolonged_sun", "high_beta" >>

\* the first type in the order whose trigger holds, if any
FirstHolding ==
    IF \E n \in 1..4 : Holds(TriggerOrder[n])
    THEN TriggerOrder[CHOOSE n \in 1..4 :
                          /\ Holds(TriggerOrder[n])
                          /\ \A m \in 1..(n - 1) : ~Holds(TriggerOrder[m])]
    ELSE "null"

\* the iteration records one more window
Recorded == Len(riskWindows') = Len(riskWindows) + 1

\* C29: when several triggering conditions hold at the same step with no
\* window open, exactly one window is opened and its type is the first in
\* the order eclipse_exit, eclipse_entry, prolonged_sun, high_beta; the
\* type and the start time of an open window are never changed by a later
\* trigger while it is open.
C29_FirstTriggerInOrderWins ==
    [][ LoopIteration =>
          /\ (~inRiskWindow /\ FirstHolding # "null")
               => /\ WindowOpened
                  /\ OpenedType = FirstHolding
                  /\ inRiskWindow' # Recorded
                  /\ IF inRiskWindow'
                     THEN riskWindowStart' = timeline'[Len(timeline')].time
                     ELSE riskWindows'[Len(riskWindows')].startTime
                            = timeline'[Len(timeline')].time
          /\ (~inRiskWindow /\ FirstHolding = "null") => ~WindowOpened
          /\ inRiskWindow
               => IF inRiskWindow'
                  THEN /\ riskWindowType' = riskWindowType
                       /\ riskWindowStart' = riskWindowStart
                       /\ riskWindows' = riskWindows
                  ELSE /\ Recorded
                       /\ riskWindows'[Len(riskWindows')].type
                            = riskWindowType
                       /\ riskWindows'[Len(riskWindows')].startTime
                            = riskWindowStart ]_vars

\* at a beta angle above 60 degrees, where the high-beta trigger holds at
\* every step, a window opened at the last step on leaving the eclipse
\* is an eclipse_exit window, and it is still open
C29_Witness ==
    /\ orbitalState.betaAngle > 1047
    /\ pc = "loop"
    /\ Len(timeline) >= 2
    /\ timeline[Len(timeline) - 1].isEclipse
    /\ ~timeline[Len(timeline)].isEclipse
    /\ inRiskWindow
    /\ riskWindowStart = timeline[Len(timeline)].time
    /\ riskWindowType = "eclipse_exit"

-----------------------------------------------------------------------------
(* Propulsion engine: the delta-v capacity *)

\* C30: for every propulsion state with dryMass > 0, propellantMass >= 0
\* and minPropellantReserve >= 0, calculateTotalDeltaVCapacity returns 0
\* when propellantMass - minPropellantReserve <= 0 and otherwise a finite
\* positive delta-v, never the unbounded sentinel of calculateDeltaV, so
\* the remainingDeltaV and estimatedLifetimeDays of the lifetime state are
\* always finite.
C30_CapacityIsFinite ==
    (/\ propulsion.dryMass > 0
     /\ propulsion.propellantMass >= 0
     /\ propulsion.minPropellantReserve >= 0)
      => /\ IF propulsion.propellantMass - propulsion.minPropellantReserve <= 0
            THEN calculateTotalDeltaVCapacity(propulsion) = 0
            ELSE /\ IsFinite(calculateTotalDeltaVCapacity(propulsion))
                 /\ calculateTotalDeltaVCapacity(propulsion) > 0
         /\ IsFinite(lifetime.remainingDeltaV)
         /\ IsFinite(lifetime.estimatedLifetimeDays)

=============================================================================
